---- MODULE Spec2Model ----
(***************************************************************************)
(* Executive Review skill: file classification, content extraction and the *)
(* review orchestrator, modelled from the Python sources.                  *)
(*                                                                         *)
(* Python strings whose characters matter (file names, persona strings)    *)
(* are sequences of one-character strings.                                 *)
(***************************************************************************)
EXTENDS Integers, Sequences, FiniteSets, TLC

VARIABLES
    file,        \* the file the path names: [name, kind, perm, size]
    vfResult,    \* result of validate_file: [ok, msg], NoResult before the call
    dctResult,   \* result of detect_content_type, or NotCalled before the call
    pc,          \* run.py: where main / run_review stands
    args,        \* run.py: the parsed command line
    personas,    \* run.py: the personas selected by main
    warnings,    \* run.py: the tokens main has warned about, in order
    stages,      \* run.py: the stages run_review has started, in order
    analysed,    \* analyze.py: personas analysed so far by analyze_content
    reportFile,  \* the file at report_path: absent, empty, partial or complete
    exitCode,    \* the exit code of the process, NoExit while it runs
    cause,       \* why the run ended
    escaped,     \* the exception that left main uncaught, or None
    reportPath,  \* run.py: where run_review will save the report, None before
    deps,        \* utils.py: what validate_dependencies found, per dependency
    xpc,         \* extract.py: where the extraction call stands
    xcall,       \* extract.py: the call and its arguments
    xres,        \* extract.py: the ExtractionResult built so far
    xerr,        \* extract.py: the exception the call raised, or None
    probes,      \* utils.py: outcomes of the ffprobe runs of this call, in order
    video,       \* extract.py: what cv2 reports of the video: [fps, readable]
    frame_interval,   \* extract_frames: frames between two captures
    frame_count,      \* extract_frames: frames written so far
    current_frame,    \* extract_frames: the read position
    extracted_paths,  \* extract_frames: the frame files written, in order
    fpc,         \* a library function called on its own: idle, called, returned
    fargs,       \* the arguments of that call
    frets        \* what the calls made with those arguments returned, in order

detVars == <<file, vfResult, dctResult>>
pipeVars == <<pc, args, personas, warnings, stages, analysed, reportFile, exitCode,
              cause, escaped, reportPath, deps>>
exVars == <<xpc, xcall, xres, xerr, probes, video, frame_interval, frame_count,
            current_frame, extracted_paths>>
callVars == <<fpc, fargs, frets>>
vars == <<file, vfResult, dctResult, pc, args, personas, warnings, stages, analysed,
          reportFile, exitCode, cause, escaped, reportPath, deps, xpc, xcall, xres, xerr,
          probes, video, frame_interval, frame_count, current_frame, extracted_paths,
          fpc, fargs, frets>>

None == "None"
NotCalled == "NotCalled"
NoResult == [ok |-> FALSE, msg |-> NotCalled]

\* ------------------------------------------------------------------------
\* bounds
\* ------------------------------------------------------------------------
MaxSize == 1

\* ------------------------------------------------------------------------
\* str.lower()
\* ------------------------------------------------------------------------
UpperCase ==
    {"A","B","C","D","E","F","G","H","I","J","K","L","M",
     "N","O","P","Q","R","S","T","U","V","W","X","Y","Z"}

LowerOf ==
    [c \in UpperCase |->
        CASE c = "A" -> "a" [] c = "B" -> "b" [] c = "C" -> "c" [] c = "D" -> "d"
          [] c = "E" -> "e" [] c = "F" -> "f" [] c = "G" -> "g" [] c = "H" -> "h"
          [] c = "I" -> "i" [] c = "J" -> "j" [] c = "K" -> "k" [] c = "L" -> "l"
          [] c = "M" -> "m" [] c = "N" -> "n" [] c = "O" -> "o" [] c = "P" -> "p"
          [] c = "Q" -> "q" [] c = "R" -> "r" [] c = "S" -> "s" [] c = "T" -> "t"
          [] c = "U" -> "u" [] c = "V" -> "v" [] c = "W" -> "w" [] c = "X" -> "x"
          [] c = "Y" -> "y" [] c = "Z" -> "z"]

LowerChar(c) == IF c \in UpperCase THEN LowerOf[c] ELSE c

Lower(s) == [i \in 1..Len(s) |-> LowerChar(s[i])]

\* ------------------------------------------------------------------------
\* constants.py: supported extensions
\* ------------------------------------------------------------------------
VIDEO == "video"
AUDIO == "audio"
DOCUMENT == "document"
PRESENTATION == "presentation"

ContentType == {VIDEO, AUDIO, DOCUMENT, PRESENTATION}

SUPPORTED_VIDEO_EXTENSIONS ==
    {<<".","m","p","4">>, <<".","w","e","b","m">>, <<".","m","o","v">>,
     <<".","a","v","i">>, <<".","m","k","v">>}

SUPPORTED_AUDIO_EXTENSIONS ==
    {<<".","m","p","3">>, <<".","w","a","v">>, <<".","m","4","a">>,
     <<".","f","l","a","c">>, <<".","o","g","g">>}

SUPPORTED_DOCUMENT_EXTENSIONS ==
    {<<".","p","d","f">>, <<".","d","o","c","x">>, <<".","m","d">>, <<".","t","x","t">>}

SUPPORTED_PRESENTATION_EXTENSIONS ==
    {<<".","p","p","t","x">>}

\* the legacy deck format accepted, with no content type of its own
ALL_SUPPORTED_EXTENSIONS_with_ppt ==
    SUPPORTED_VIDEO_EXTENSIONS \cup SUPPORTED_AUDIO_EXTENSIONS
        \cup SUPPORTED_DOCUMENT_EXTENSIONS \cup SUPPORTED_PRESENTATION_EXTENSIONS
        \cup {<<".","p","p","t">>}

ALL_SUPPORTED_EXTENSIONS ==
    SUPPORTED_VIDEO_EXTENSIONS \cup SUPPORTED_AUDIO_EXTENSIONS
        \cup SUPPORTED_DOCUMENT_EXTENSIONS \cup SUPPORTED_PRESENTATION_EXTENSIONS

\* ------------------------------------------------------------------------
\* utils.py: get_file_extension = path.suffix.lower()
\* ------------------------------------------------------------------------
\* index of the last "." of the name, 0 when there is none
LastDot(name) ==
    LET dots == {i \in 1..Len(name) : name[i] = "."}
    IN  IF dots = {} THEN 0 ELSE CHOOSE i \in dots : \A j \in dots : j <= i

\* Path.suffix: the part from the last dot on; a leading or trailing dot
\* gives no suffix
Suffix(name) ==
    LET d == LastDot(name)
    IN  IF d > 1 /\ d < Len(name) THEN SubSeq(name, d, Len(name)) ELSE <<>>

get_file_extension_raw(name) == Suffix(name)

get_file_extension(name) == Lower(Suffix(name))

\* ------------------------------------------------------------------------
\* detect.py: detect_content_type
\* ------------------------------------------------------------------------
detect_content_type_nolower(name) ==
    LET ext == get_file_extension_raw(name)
    IN  IF ext \in SUPPORTED_VIDEO_EXTENSIONS THEN VIDEO
        ELSE IF ext \in SUPPORTED_AUDIO_EXTENSIONS THEN AUDIO
        ELSE IF ext \in SUPPORTED_DOCUMENT_EXTENSIONS THEN DOCUMENT
        ELSE IF ext \in SUPPORTED_PRESENTATION_EXTENSIONS THEN PRESENTATION
        ELSE None

detect_content_type(name) ==
    LET ext == get_file_extension(name)
    IN  IF ext \in SUPPORTED_VIDEO_EXTENSIONS THEN VIDEO
        ELSE IF ext \in SUPPORTED_AUDIO_EXTENSIONS THEN AUDIO
        ELSE IF ext \in SUPPORTED_DOCUMENT_EXTENSIONS THEN DOCUMENT
        ELSE IF ext \in SUPPORTED_PRESENTATION_EXTENSIONS THEN PRESENTATION
        ELSE None

\* ------------------------------------------------------------------------
\* detect.py: validate_file
\* ------------------------------------------------------------------------
MsgNotFound == "File not found"
MsgNotFile == "Path is not a file"
MsgDenied == "Permission denied"
MsgCannotRead == "Cannot read file"
MsgUnsupported == "Unsupported file type"
MsgEmpty == "File is empty"
MsgValid == "File is valid"

\* the size check made before the extension check
validate_file_size_first(f) ==
    IF f.kind = "missing" THEN [ok |-> FALSE, msg |-> MsgNotFound]
    ELSE IF f.kind # "file" THEN [ok |-> FALSE, msg |-> MsgNotFile]
    ELSE IF f.perm = "denied" THEN [ok |-> FALSE, msg |-> MsgDenied]
    ELSE IF f.perm = "ioerror" THEN [ok |-> FALSE, msg |-> MsgCannotRead]
    ELSE IF f.size = 0 THEN [ok |-> FALSE, msg |-> MsgEmpty]
    ELSE IF get_file_extension(f.name) \notin ALL_SUPPORTED_EXTENSIONS
        THEN [ok |-> FALSE, msg |-> MsgUnsupported]
    ELSE [ok |-> TRUE, msg |-> MsgValid]

validate_file(f) ==
    IF f.kind = "missing" THEN [ok |-> FALSE, msg |-> MsgNotFound]
    ELSE IF f.kind # "file" THEN [ok |-> FALSE, msg |-> MsgNotFile]
    ELSE IF f.perm = "denied" THEN [ok |-> FALSE, msg |-> MsgDenied]
    ELSE IF f.perm = "ioerror" THEN [ok |-> FALSE, msg |-> MsgCannotRead]
    ELSE IF get_file_extension(f.name) \notin ALL_SUPPORTED_EXTENSIONS
        THEN [ok |-> FALSE, msg |-> MsgUnsupported]
    ELSE IF f.size = 0 THEN [ok |-> FALSE, msg |-> MsgEmpty]
    ELSE [ok |-> TRUE, msg |-> MsgValid]

\* ------------------------------------------------------------------------
\* the files a path can name
\* ------------------------------------------------------------------------
FileNames ==
    { <<"a",".","m","p","4">>,
      <<"a",".","M","P","4">>,
      <<"a",".","w","e","b","m">>,
      <<"a",".","m","o","v">>,
      <<"a",".","A","v","i">>,
      <<"a",".","m","k","v">>,
      <<"a",".","m","p","3">>,
      <<"a",".","W","A","V">>,
      <<"a",".","m","4","a">>,
      <<"a",".","f","l","a","c">>,
      <<"a",".","o","g","g">>,
      <<"a",".","p","d","f">>,
      <<"a",".","P","D","F">>,
      <<"a",".","d","o","c","x">>,
      <<"a",".","m","d">>,
      <<"a",".","t","x","t">>,
      <<"a",".","T","x","T">>,
      <<"a",".","p","p","t","x">>,
      <<"a",".","P","P","T","X">>,
      <<"a",".","p","p","t">>,
      <<"a",".","e","x","e">>,
      <<"a",".","b",".","m","d">>,
      <<".","m","d">>,
      <<"a",".">>,
      <<"a","b","c">> }

FileKinds == {"missing", "dir", "file"}
FilePerms == {"ok", "denied", "ioerror"}

\* a path that names nothing has no permissions and no size
Files ==
    { f \in [name : FileNames, kind : FileKinds, perm : FilePerms, size : 0..MaxSize] :
        f.kind = "missing" => (f.perm = "ok" /\ f.size = 0) }

\* ------------------------------------------------------------------------
\* str.split(","), str.strip()
\* ------------------------------------------------------------------------
Whitespace == {" "}

RECURSIVE SplitComma(_)
SplitComma(s) ==
    LET commas == {i \in 1..Len(s) : s[i] = ","}
    IN  IF commas = {} THEN <<s>>
        ELSE LET i == CHOOSE k \in commas : \A j \in commas : k <= j
             IN  <<SubSeq(s, 1, i - 1)>> \o SplitComma(SubSeq(s, i + 1, Len(s)))

Strip(s) ==
    LET keep == {i \in 1..Len(s) : s[i] \notin Whitespace}
    IN  IF keep = {} THEN <<>>
        ELSE SubSeq(s, CHOOSE k \in keep : \A j \in keep : k <= j,
                       CHOOSE k \in keep : \A j \in keep : j <= k)

\* ------------------------------------------------------------------------
\* types.py: PersonaType, UserType; constants.py: USER_TYPE_PERSONA_DEFAULTS
\* ------------------------------------------------------------------------
CEO == "ceo"
CFO == "cfo"
CTO == "cto"
VP_PRODUCT == "vp_product"
CISO == "ciso"
VP_OPERATIONS == "vp_operations"

\* list(PersonaType): the members in definition order
PersonaType == <<CEO, CFO, CTO, VP_PRODUCT, CISO, VP_OPERATIONS>>

SALES_ENGINEER == "sales_engineer"
PRODUCT_MANAGER == "product_manager"
DEVELOPER == "developer"
TECHNICAL_WRITER == "technical_writer"
MARKETING == "marketing"
SOLUTIONS_ARCHITECT == "solutions_architect"

UserType ==
    {SALES_ENGINEER, PRODUCT_MANAGER, DEVELOPER, TECHNICAL_WRITER, MARKETING,
     SOLUTIONS_ARCHITECT}

USER_TYPE_PERSONA_DEFAULTS(ut) ==
    CASE ut = SALES_ENGINEER -> <<CTO, CISO>>
      [] ut = PRODUCT_MANAGER -> <<CEO, VP_PRODUCT>>
      [] ut = DEVELOPER -> <<CTO, VP_OPERATIONS>>
      [] ut = TECHNICAL_WRITER -> <<CEO, CFO>>
      [] ut = MARKETING -> <<CEO, CFO>>
      [] ut = SOLUTIONS_ARCHITECT -> <<CTO, CISO, VP_OPERATIONS>>
      [] OTHER -> <<>>

\* ------------------------------------------------------------------------
\* run.py: parse_personas, parse_user_type
\* ------------------------------------------------------------------------
persona_map(p) ==
    CASE p = <<"c","e","o">> -> CEO
      [] p = <<"c","f","o">> -> CFO
      [] p = <<"c","t","o">> -> CTO
      [] p = <<"v","p","_","p","r","o","d","u","c","t">> -> VP_PRODUCT
      [] p = <<"v","p","p","r","o","d","u","c","t">> -> VP_PRODUCT
      [] p = <<"v","p","-","p","r","o","d","u","c","t">> -> VP_PRODUCT
      [] p = <<"p","r","o","d","u","c","t">> -> VP_PRODUCT
      [] p = <<"c","i","s","o">> -> CISO
      [] p = <<"s","e","c","u","r","i","t","y">> -> CISO
      [] p = <<"v","p","_","o","p","e","r","a","t","i","o","n","s">> -> VP_OPERATIONS
      [] p = <<"v","p","o","p","e","r","a","t","i","o","n","s">> -> VP_OPERATIONS
      [] p = <<"v","p","-","o","p","e","r","a","t","i","o","n","s">> -> VP_OPERATIONS
      [] p = <<"o","p","e","r","a","t","i","o","n","s">> -> VP_OPERATIONS
      [] p = <<"o","p","s">> -> VP_OPERATIONS
      [] OTHER -> None

\* the tokens of the string: lower-cased, split at commas, each stripped
PersonaTokens(persona_str) ==
    LET toks == SplitComma(Lower(persona_str))
    IN  [i \in 1..Len(toks) |-> Strip(toks[i])]

RECURSIVE ParseTokens(_)
ParseTokens(toks) ==
    IF toks = <<>> THEN [personas |-> <<>>, warnings |-> <<>>]
    ELSE LET rest == ParseTokens(Tail(toks))
             p == Head(toks)
         IN  IF persona_map(p) # None
             THEN [personas |-> <<persona_map(p)>> \o rest.personas,
                   warnings |-> rest.warnings]
             ELSE [personas |-> rest.personas,
                   warnings |-> <<[kind |-> "persona", token |-> p]>> \o rest.warnings]

\* the tokens looked up without strip()
parse_personas_nostrip(persona_str) == ParseTokens(SplitComma(Lower(persona_str)))

parse_personas(persona_str) == ParseTokens(PersonaTokens(persona_str))

user_type_map(u) ==
    CASE u = <<"s","a","l","e","s">> -> SALES_ENGINEER
      [] u = <<"s","a","l","e","s","_","e","n","g","i","n","e","e","r">> -> SALES_ENGINEER
      [] u = <<"p","r","o","d","u","c","t">> -> PRODUCT_MANAGER
      [] u = <<"p","r","o","d","u","c","t","_","m","a","n","a","g","e","r">> -> PRODUCT_MANAGER
      [] u = <<"p","m">> -> PRODUCT_MANAGER
      [] u = <<"d","e","v","e","l","o","p","e","r">> -> DEVELOPER
      [] u = <<"d","e","v">> -> DEVELOPER
      [] u = <<"w","r","i","t","e","r">> -> TECHNICAL_WRITER
      [] u = <<"t","e","c","h","n","i","c","a","l","_","w","r","i","t","e","r">> -> TECHNICAL_WRITER
      [] u = <<"m","a","r","k","e","t","i","n","g">> -> MARKETING
      [] u = <<"s","o","l","u","t","i","o","n","s">> -> SOLUTIONS_ARCHITECT
      [] u = <<"s","o","l","u","t","i","o","n","s","_","a","r","c","h","i","t","e","c","t">>
            -> SOLUTIONS_ARCHITECT
      [] u = <<"s","a">> -> SOLUTIONS_ARCHITECT
      [] OTHER -> None

parse_user_type(user_type_str) == user_type_map(Strip(Lower(user_type_str)))

\* ------------------------------------------------------------------------
\* run.py: main, persona selection (lines 345-370)
\* ------------------------------------------------------------------------
\* an option that takes a string: given or not, and the string
Absent == [given |-> FALSE, str |-> <<>>]
Given(s) == [given |-> TRUE, str |-> s]

\* Python truth of an optional string: None and "" are false
Truthy(opt) == opt.given /\ opt.str # <<>>

DefaultPersonas == <<CEO, CTO>>

\* the user type looked at before the persona list
ChosenPersonasUserTypeFirst(a) ==
    IF a.all_personas THEN [personas |-> PersonaType, warnings |-> <<>>]
    ELSE IF Truthy(a.user_type) /\ parse_user_type(a.user_type.str) # None
        THEN [personas |-> USER_TYPE_PERSONA_DEFAULTS(parse_user_type(a.user_type.str)),
              warnings |-> <<>>]
    ELSE IF Truthy(a.personas) THEN parse_personas(a.personas.str)
    ELSE [personas |-> <<>>, warnings |-> <<>>]

\* the persona list before the default is applied
ChosenPersonas(a) ==
    IF a.all_personas THEN [personas |-> PersonaType, warnings |-> <<>>]
    ELSE IF Truthy(a.personas) THEN parse_personas(a.personas.str)
    ELSE IF Truthy(a.user_type)
        THEN IF parse_user_type(a.user_type.str) # None
             THEN [personas |-> USER_TYPE_PERSONA_DEFAULTS(parse_user_type(a.user_type.str)),
                   warnings |-> <<>>]
             ELSE [personas |-> <<>>,
                   warnings |-> <<[kind |-> "user_type", token |-> a.user_type.str]>>]
    ELSE [personas |-> <<>>, warnings |-> <<>>]

SelectPersonas(a) ==
    LET chosen == ChosenPersonas(a)
    IN  IF chosen.personas = <<>>
        THEN [personas |-> DefaultPersonas, warnings |-> chosen.warnings]
        ELSE chosen

\* ------------------------------------------------------------------------
\* run.py: the command line
\* ------------------------------------------------------------------------
PersonaStrings ==
    { <<"c","t","o",",","c","i","s","o">>,
      <<"b","o","g","u","s",",","c","f","o">>,
      <<"b","o","g","u","s">>,
      <<" ","C","F","O"," ",","," ","C","e","o">>,
      <<>> }

UserTypeStrings ==
    { <<"s","a","l","e","s">>, <<" ","P","M">>, <<"b","o","g","u","s">> }

AllArgs ==
    [ check_deps : BOOLEAN,
      all_personas : BOOLEAN,
      personas : {Absent} \cup {Given(x) : x \in PersonaStrings},
      user_type : {Absent} \cup {Given(x) : x \in UserTypeStrings},
      output : BOOLEAN ]

\* the files the review is run on: one name per content type, two unsupported
ReviewNames ==
    { <<"a",".","M","P","4">>, <<"a",".","m","p","3">>, <<"a",".","p","d","f">>,
      <<"a",".","t","x","t">>, <<"a",".","p","p","t","x">>, <<"a",".","e","x","e">>,
      <<"a","b","c">> }

ReviewFiles ==
    { f \in Files : f.name \in ReviewNames /\ (f.kind = "dir" => (f.perm = "ok" /\ f.size = 0)) }

\* --check-deps reads nothing but the flags argparse checks
Runs ==
    { r \in [args : AllArgs, file : ReviewFiles] :
        r.args.check_deps =>
            /\ r.args.user_type = Absent /\ ~r.args.output
            /\ r.args.personas \in {Absent, Given(<<"b","o","g","u","s">>)}
            /\ r.file.name = <<"a",".","t","x","t">>
            /\ r.file.perm = "ok"
            /\ r.file.size = IF r.file.kind = "file" THEN MaxSize ELSE 0 }

\* utils.py validate_dependencies: two binaries and seven packages
Dependencies ==
    {"ffmpeg", "poppler", "whisper", "cv2", "pptx", "docx", "fitz", "PIL", "pydantic"}

\* exit codes
ExitSuccess == 0
ExitError == 1
ExitUsage == 2
ExitInterrupt == 130
NoExit == -1

\* the pipeline stages of run_review
StValidate == "validate"
StDetect == "detect"
StOutput == "output"
StExtract == "extract"
StAnalyze == "analyze"
StRender == "render"
StPersist == "persist"

DefaultReportPath == "output/<timestamp>/executive-review-<timestamp>.md"
ExplicitReportPath == "<args.output>"

\* ------------------------------------------------------------------------
\* extract.py, utils.py: values of an extraction call
\* ------------------------------------------------------------------------
MAX_FRAMES_TO_EXTRACT == 100
DEFAULT_FRAME_INTERVAL_SECONDS == 15

\* Optional[float] duration_seconds: None
NoDuration == -1

\* fps is a float: the model counts it in hundredths of a frame per second
FpsScale == 100

\* what one run of ffprobe can come to
ProbeOk == "ok"
ProbeTimeout == "timeout"
ProbeNonZero == "nonzero_exit"
ProbeBadJson == "unparseable_output"
ProbeNoKey == "incomplete_output"
ProbeBadValue == "duration_not_a_number"
ProbeNotInstalled == "not_installed"

ProbeFailures ==
    {ProbeTimeout, ProbeNonZero, ProbeBadJson, ProbeNoKey, ProbeBadValue, ProbeNotInstalled}

\* exceptions
ErrWhisper == "whisper failed"
ErrFileNotFound == "FileNotFoundError: ffprobe"
ErrVideoOpen == "ValueError: Could not open video file"
ErrUnsupportedDocument == "ValueError: Unsupported document format"
ErrUnsupportedPresentation == "ValueError: Unsupported presentation format"
ErrUnknownContentType == "ValueError: Unknown content type"
ErrLibrary == "document library failed"

NoCall ==
    [entry |-> "none", content_type |-> None, output_dir |-> FALSE, enable_frames |-> FALSE,
     frame_interval |-> DEFAULT_FRAME_INTERVAL_SECONDS, max_frames |-> MAX_FRAMES_TO_EXTRACT]

EmptyResult ==
    [content_type |-> None, duration |-> NoDuration, text |-> "", image_paths |-> <<>>]

NoVideo == [fps |-> 0, readable |-> 0]

ExIdle ==
    /\ xpc = "idle"
    /\ xcall = NoCall
    /\ xres = EmptyResult
    /\ xerr = None
    /\ probes = <<>>
    /\ video = NoVideo
    /\ frame_interval = 0
    /\ frame_count = 0
    /\ current_frame = 0
    /\ extracted_paths = <<>>

\* no library function is being called on its own
CallIdle ==
    /\ fpc = "idle"
    /\ fargs = <<>>
    /\ frets = <<>>

\* ------------------------------------------------------------------------
\* Spec: one run of the full-pipeline command line (run.py main)
\* ------------------------------------------------------------------------
DetIdle ==
    /\ vfResult = NoResult
    /\ dctResult = NotCalled

PipeIdle ==
    /\ pc = "idle"
    /\ args = [check_deps |-> FALSE, all_personas |-> FALSE, personas |-> Absent,
               user_type |-> Absent, output |-> FALSE]
    /\ personas = <<>>
    /\ warnings = <<>>
    /\ stages = <<>>
    /\ analysed = 0
    /\ reportFile = "absent"
    /\ exitCode = NoExit
    /\ cause = None
    /\ escaped = None
    /\ reportPath = None
    /\ deps = [d \in Dependencies |-> TRUE]

Init ==
    /\ \E r \in Runs : args = r.args /\ file = r.file
    /\ DetIdle
    /\ pc = "main_parse"
    /\ personas = <<>>
    /\ warnings = <<>>
    /\ stages = <<>>
    /\ analysed = 0
    /\ reportFile = "absent"
    /\ exitCode = NoExit
    /\ cause = None
    /\ escaped = None
    /\ reportPath = None
    /\ deps = [d \in Dependencies |-> TRUE]
    /\ ExIdle
    /\ CallIdle

\* sys.exit(code)
Exit(code, why) ==
    /\ pc' = "exited"
    /\ exitCode' = code
    /\ cause' = why

\* an exception raised inside run_review, caught by main's except Exception
Raise == Exit(ExitError, "exception")

\* parser.parse_args(): --personas and --all-personas exclude each other
MainParseArgs ==
    /\ pc = "main_parse"
    /\ IF args.personas.given /\ args.all_personas
       THEN Exit(ExitUsage, "usage")
       ELSE pc' = "main_check_deps" /\ UNCHANGED <<exitCode, cause>>
    /\ UNCHANGED <<args, personas, warnings, stages, analysed, reportFile, escaped,
                   reportPath, deps>>
    /\ UNCHANGED detVars
    /\ UNCHANGED exVars
    /\ UNCHANGED callVars

\* check_dependencies looking at the two binaries only
MainCheckDepsBinariesOnly ==
    /\ pc = "main_check_deps"
    /\ IF args.check_deps
       THEN \E found \in [Dependencies -> BOOLEAN] :
               /\ deps' = found
               /\ IF found["ffmpeg"] /\ found["poppler"]
                  THEN Exit(ExitSuccess, "deps_present")
                  ELSE Exit(ExitError, "deps_missing")
       ELSE pc' = "main_exists" /\ UNCHANGED <<exitCode, cause, deps>>
    /\ UNCHANGED <<args, personas, warnings, stages, analysed, reportFile, escaped,
                   reportPath>>
    /\ UNCHANGED detVars
    /\ UNCHANGED exVars
    /\ UNCHANGED callVars

\* if args.check_deps: sys.exit(0 if check_dependencies() else 1)
MainCheckDeps ==
    /\ pc = "main_check_deps"
    /\ IF args.check_deps
       THEN \E found \in [Dependencies -> BOOLEAN] :
               /\ deps' = found
               /\ IF \A d \in Dependencies : found[d]
                  THEN Exit(ExitSuccess, "deps_present")
                  ELSE Exit(ExitError, "deps_missing")
       ELSE pc' = "main_exists" /\ UNCHANGED <<exitCode, cause, deps>>
    /\ UNCHANGED <<args, personas, warnings, stages, analysed, reportFile, escaped,
                   reportPath>>
    /\ UNCHANGED detVars
    /\ UNCHANGED exVars
    /\ UNCHANGED callVars

\* if not args.file.exists(): sys.exit(1)
MainFileExists ==
    /\ pc = "main_exists"
    /\ IF file.kind = "missing"
       THEN Exit(ExitError, "not_found")
       ELSE pc' = "main_personas" /\ UNCHANGED <<exitCode, cause>>
    /\ UNCHANGED <<args, personas, warnings, stages, analysed, reportFile, escaped,
                   reportPath, deps>>
    /\ UNCHANGED detVars
    /\ UNCHANGED exVars
    /\ UNCHANGED callVars

\* the persona selection, then the frame settings, up to the call of run_review
MainSelectPersonas ==
    /\ pc = "main_personas"
    /\ personas' = SelectPersonas(args).personas
    /\ warnings' = SelectPersonas(args).warnings
    /\ pc' = "rr_validate"
    /\ UNCHANGED <<args, stages, analysed, reportFile, exitCode, cause, escaped,
                   reportPath, deps>>
    /\ UNCHANGED detVars
    /\ UNCHANGED exVars
    /\ UNCHANGED callVars

\* validate_file's verdict ignored: the review goes on with an invalid file
RRValidateContinues ==
    /\ pc = "rr_validate"
    /\ vfResult' = validate_file(file)
    /\ stages' = Append(stages, [stage |-> StValidate, ok |-> vfResult'.ok])
    /\ pc' = "rr_detect"
    /\ UNCHANGED <<exitCode, cause>>
    /\ UNCHANGED <<args, personas, warnings, analysed, reportFile, escaped, reportPath,
                   deps, file, dctResult>>
    /\ UNCHANGED exVars
    /\ UNCHANGED callVars

\* run_review step 1: validate_file, sys.exit(1) when it fails
RRValidate ==
    /\ pc = "rr_validate"
    /\ vfResult' = validate_file(file)
    /\ stages' = Append(stages, [stage |-> StValidate, ok |-> vfResult'.ok])
    /\ IF vfResult'.ok
       THEN pc' = "rr_detect" /\ UNCHANGED <<exitCode, cause>>
       ELSE Exit(ExitError, "invalid")
    /\ UNCHANGED <<args, personas, warnings, analysed, reportFile, escaped, reportPath,
                   deps, file, dctResult>>
    /\ UNCHANGED exVars
    /\ UNCHANGED callVars

\* run_review step 1: detect_content_type, sys.exit(1) when it finds none
RRDetect ==
    /\ pc = "rr_detect"
    /\ dctResult' = detect_content_type(file.name)
    /\ stages' = Append(stages, [stage |-> StDetect, ok |-> dctResult' # None])
    /\ IF dctResult' # None
       THEN pc' = "rr_output" /\ UNCHANGED <<exitCode, cause>>
       ELSE Exit(ExitError, "undetected")
    /\ UNCHANGED <<args, personas, warnings, analysed, reportFile, escaped, reportPath,
                   deps, file, vfResult>>
    /\ UNCHANGED exVars
    /\ UNCHANGED callVars

\* run_review step 2: the report path, and ensure_directory on its directory
RROutputDir ==
    /\ pc = "rr_output"
    /\ \E made \in BOOLEAN :
          /\ stages' = Append(stages, [stage |-> StOutput, ok |-> made])
          /\ IF made
             THEN /\ reportPath' = IF args.output THEN ExplicitReportPath
                                   ELSE DefaultReportPath
                  /\ pc' = "rr_extract"
                  /\ UNCHANGED <<exitCode, cause>>
             ELSE Raise /\ UNCHANGED reportPath
    /\ UNCHANGED <<args, personas, warnings, analysed, reportFile, escaped, deps>>
    /\ UNCHANGED detVars
    /\ UNCHANGED exVars
    /\ UNCHANGED callVars

\* run_review step 3: extract_content returns a result or raises
RRExtract ==
    /\ pc = "rr_extract"
    /\ \E extracted \in BOOLEAN :
          /\ stages' = Append(stages, [stage |-> StExtract, ok |-> extracted])
          /\ IF extracted
             THEN pc' = "rr_analyze" /\ UNCHANGED <<exitCode, cause>>
             ELSE Raise
    /\ UNCHANGED <<args, personas, warnings, analysed, reportFile, escaped, reportPath,
                   deps>>
    /\ UNCHANGED detVars
    /\ UNCHANGED exVars
    /\ UNCHANGED callVars

\* run_review step 4: analyze_content, one analyze_for_persona per persona
RRAnalyzePersona ==
    /\ pc = "rr_analyze"
    /\ analysed < Len(personas)
    /\ \E done \in BOOLEAN :
          /\ stages' = Append(stages, [stage |-> StAnalyze, ok |-> done])
          /\ IF done
             THEN /\ analysed' = analysed + 1
                  /\ pc' = IF analysed' = Len(personas) THEN "rr_render" ELSE "rr_analyze"
                  /\ UNCHANGED <<exitCode, cause>>
             ELSE Raise /\ UNCHANGED analysed
    /\ UNCHANGED <<args, personas, warnings, reportFile, escaped, reportPath, deps>>
    /\ UNCHANGED detVars
    /\ UNCHANGED exVars
    /\ UNCHANGED callVars

\* run_review step 5: generate_report
RRRender ==
    /\ pc = "rr_render"
    /\ \E rendered \in BOOLEAN :
          /\ stages' = Append(stages, [stage |-> StRender, ok |-> rendered])
          /\ IF rendered
             THEN pc' = "rr_save" /\ UNCHANGED <<exitCode, cause>>
             ELSE Raise
    /\ UNCHANGED <<args, personas, warnings, analysed, reportFile, escaped, reportPath,
                   deps>>
    /\ UNCHANGED detVars
    /\ UNCHANGED exVars
    /\ UNCHANGED callVars

\* save_report: output_path.parent.mkdir, then open(output_path, "w")
RRSaveOpen ==
    /\ pc = "rr_save"
    /\ \E opened \in BOOLEAN :
          /\ stages' = Append(stages, [stage |-> StPersist, ok |-> opened])
          /\ IF opened
             THEN /\ reportFile' = "empty"
                  /\ pc' = "rr_write"
                  /\ UNCHANGED <<exitCode, cause>>
             ELSE Raise /\ UNCHANGED reportFile
    /\ UNCHANGED <<args, personas, warnings, analysed, escaped, reportPath, deps>>
    /\ UNCHANGED detVars
    /\ UNCHANGED exVars
    /\ UNCHANGED callVars

\* save_report: f.write(report) and the close of the file
RRSaveWrite ==
    /\ pc = "rr_write"
    /\ \/ /\ reportFile' = "complete"
          /\ pc' = "rr_finish"
          /\ UNCHANGED <<exitCode, cause, stages>>
       \/ /\ reportFile' \in {"empty", "partial"}
          /\ stages' = [stages EXCEPT ![Len(stages)].ok = FALSE]
          /\ Raise
    /\ UNCHANGED <<args, personas, warnings, analysed, escaped, reportPath, deps>>
    /\ UNCHANGED detVars
    /\ UNCHANGED exVars
    /\ UNCHANGED callVars

\* the status lines after the write, the return of run_review and of main
RRFinish ==
    /\ pc = "rr_finish"
    /\ \E printed \in BOOLEAN :
          IF printed THEN Exit(ExitSuccess, "returned") ELSE Raise
    /\ UNCHANGED <<args, personas, warnings, stages, analysed, reportFile, escaped,
                   reportPath, deps>>
    /\ UNCHANGED detVars
    /\ UNCHANGED exVars
    /\ UNCHANGED callVars

ReviewPcs ==
    {"rr_validate", "rr_detect", "rr_output", "rr_extract", "rr_analyze", "rr_render",
     "rr_save", "rr_write", "rr_finish"}

MainPcs == {"main_parse", "main_check_deps", "main_exists", "main_personas"}

\* KeyboardInterrupt handled like any other exception: exit code 1
InterruptAsError ==
    /\ pc \in ReviewPcs \cup MainPcs
    /\ IF pc \in ReviewPcs
       THEN Exit(ExitError, "interrupt_review") /\ UNCHANGED escaped
       ELSE /\ pc' = "exited"
            /\ escaped' = "KeyboardInterrupt"
            /\ cause' = "interrupt_main"
            /\ UNCHANGED exitCode
    /\ reportFile' \in IF pc = "rr_write" THEN {"empty", "partial"} ELSE {reportFile}
    /\ UNCHANGED <<args, personas, warnings, stages, analysed, reportPath, deps>>
    /\ UNCHANGED detVars
    /\ UNCHANGED exVars
    /\ UNCHANGED callVars

\* Ctrl-C: main catches KeyboardInterrupt only around run_review
Interrupt ==
    /\ pc \in ReviewPcs \cup MainPcs
    /\ IF pc \in ReviewPcs
       THEN Exit(ExitInterrupt, "interrupt_review") /\ UNCHANGED escaped
       ELSE /\ pc' = "exited"
            /\ escaped' = "KeyboardInterrupt"
            /\ cause' = "interrupt_main"
            /\ UNCHANGED exitCode
    /\ reportFile' \in IF pc = "rr_write" THEN {"empty", "partial"} ELSE {reportFile}
    /\ UNCHANGED <<args, personas, warnings, stages, analysed, reportPath, deps>>
    /\ UNCHANGED detVars
    /\ UNCHANGED exVars
    /\ UNCHANGED callVars

Next ==
    \/ MainParseArgs
    \/ MainCheckDeps
    \/ MainFileExists
    \/ MainSelectPersonas
    \/ RRValidate
    \/ RRDetect
    \/ RROutputDir
    \/ RRExtract
    \/ RRAnalyzePersona
    \/ RRRender
    \/ RRSaveOpen
    \/ RRSaveWrite
    \/ RRFinish
    \/ Interrupt

Spec == Init /\ [][Next]_vars

\* ------------------------------------------------------------------------
\* SpecDetect: the classifier called directly on any path
\* ------------------------------------------------------------------------
InitDetect ==
    /\ file \in Files
    /\ DetIdle
    /\ PipeIdle
    /\ ExIdle
    /\ CallIdle

CallValidateFile ==
    /\ vfResult = NoResult
    /\ vfResult' = validate_file(file)
    /\ UNCHANGED <<file, dctResult>>
    /\ UNCHANGED pipeVars
    /\ UNCHANGED exVars
    /\ UNCHANGED callVars

CallDetectContentType ==
    /\ dctResult = NotCalled
    /\ dctResult' = detect_content_type(file.name)
    /\ UNCHANGED <<file, vfResult>>
    /\ UNCHANGED pipeVars
    /\ UNCHANGED exVars
    /\ UNCHANGED callVars

NextDetect == CallValidateFile \/ CallDetectContentType

SpecDetect == InitDetect /\ [][NextDetect]_vars

\* ------------------------------------------------------------------------
\* utils.py: get_video_duration, get_audio_duration
\* ------------------------------------------------------------------------
\* the durations ffprobe reports, in seconds
Durations == {0, 90}

\* one call: [raised, value]; subprocess errors, bad JSON, a missing key and
\* a bad number are caught, a missing binary (FileNotFoundError) is not
\* a failed probe answered with 0.0 instead of None
get_video_duration_zero_on_failure(outcome, seconds) ==
    CASE outcome = ProbeOk -> [raised |-> None, value |-> seconds]
      [] outcome = ProbeNotInstalled -> [raised |-> ErrFileNotFound, value |-> NoDuration]
      [] OTHER -> [raised |-> None, value |-> 0]

get_video_duration(outcome, seconds) ==
    CASE outcome = ProbeOk -> [raised |-> None, value |-> seconds]
      [] outcome = ProbeNotInstalled -> [raised |-> ErrFileNotFound, value |-> NoDuration]
      [] OTHER -> [raised |-> None, value |-> NoDuration]

get_audio_duration(outcome, seconds) == get_video_duration(outcome, seconds)

\* Python truth of an Optional[float]: None and 0.0 are false
DurationTruthy(d) == d # NoDuration /\ d # 0

\* ------------------------------------------------------------------------
\* extract.py: extract_frames arithmetic
\* ------------------------------------------------------------------------
\* int(x / d) for d > 0: truncation toward zero
TruncDiv(x, d) == IF x >= 0 THEN x \div d ELSE -((-x) \div d)

\* the product taken as it comes: zero or negative steps stay
FrameInterval_unclamped(fps, interval_seconds) ==
    TruncDiv(fps * interval_seconds, FpsScale)

\* frame_interval = int(fps * interval_seconds), at least 1
FrameInterval(fps, interval_seconds) ==
    IF TruncDiv(fps * interval_seconds, FpsScale) < 1 THEN 1
    ELSE TruncDiv(fps * interval_seconds, FpsScale)

\* frame_<index:04d>_<MM>m<SS>s.jpg, with the position the frame was read at
FramePath(count, position, fps) ==
    [index |-> count,
     mm |-> IF fps > 0 THEN (position * FpsScale) \div (fps * 60) ELSE 0,
     ss |-> IF fps > 0 THEN ((position * FpsScale) \div fps) % 60 ELSE 0,
     pos |-> position]

\* ------------------------------------------------------------------------
\* SpecExtract: one call of extract_content or of extract_frames
\* ------------------------------------------------------------------------
MaxReadable == 4

\* frames a video lets read: short videos, and one longer than the frame cap
ReadableCounts == 0..MaxReadable \cup {MAX_FRAMES_TO_EXTRACT + 2}

\* fps values, in hundredths: unknown (0), 0.5, 1 and 29.97
FpsValues == {0, 50, 100, 2997}

Intervals == {-1, 0, 1, 2, DEFAULT_FRAME_INTERVAL_SECONDS}

MaxFramesValues == {0, 1, 3, MAX_FRAMES_TO_EXTRACT}

ExtractNames ==
    { <<"a",".","M","P","4">>, <<"a",".","m","k","v">>, <<"a",".","m","p","3">>,
      <<"a",".","p","d","f">>, <<"a",".","d","o","c","x">>, <<"a",".","m","d">>,
      <<"a",".","t","x","t">>, <<"a",".","p","p","t","x">>, <<"a",".","e","x","e">> }

\* extract_content(file_path, content_type, output_dir, enable_frames, ..., frame_interval)
ContentCalls ==
    [ entry : {"extract_content"},
      content_type : ContentType \cup {None},
      output_dir : BOOLEAN,
      enable_frames : BOOLEAN,
      frame_interval : Intervals,
      max_frames : {MAX_FRAMES_TO_EXTRACT} ]

\* extract_frames(file_path, output_dir, interval_seconds, max_frames)
FrameCalls ==
    [ entry : {"extract_frames"},
      content_type : {VIDEO},
      output_dir : {TRUE},
      enable_frames : {TRUE},
      frame_interval : Intervals,
      max_frames : MaxFramesValues ]

\* the frame settings are read by the video branch with frames enabled only
ExtractCalls ==
    { c \in ContentCalls :
        (c.content_type # VIDEO \/ ~c.enable_frames \/ ~c.output_dir)
            => c.frame_interval = DEFAULT_FRAME_INTERVAL_SECONDS }
    \cup FrameCalls

InitExtract ==
    /\ file \in { f \in Files : f.name \in ExtractNames /\ f.kind = "file"
                                 /\ f.perm = "ok" /\ f.size = MaxSize }
    /\ xcall \in ExtractCalls
    /\ xpc = IF xcall.entry = "extract_frames" THEN "frames_open" ELSE "dispatch"
    /\ xres = EmptyResult
    /\ xerr = None
    /\ probes = <<>>
    /\ video = NoVideo
    /\ frame_interval = 0
    /\ frame_count = 0
    /\ current_frame = 0
    /\ extracted_paths = <<>>
    /\ DetIdle
    /\ PipeIdle
    /\ CallIdle

\* an exception leaves the call
XRaise(e) ==
    /\ xpc' = "raised"
    /\ xerr' = e

\* extract_content: the if / elif chain on content_type
XDispatch ==
    /\ xpc = "dispatch"
    /\ IF xcall.content_type \in {VIDEO, AUDIO}
       THEN xpc' = "transcribe" /\ UNCHANGED xerr
       ELSE IF xcall.content_type = DOCUMENT
       THEN xpc' = "document" /\ UNCHANGED xerr
       ELSE IF xcall.content_type = PRESENTATION
       THEN xpc' = "presentation" /\ UNCHANGED xerr
       ELSE XRaise(ErrUnknownContentType)
    /\ UNCHANGED <<xcall, xres, probes, video, frame_interval, frame_count, current_frame,
                   extracted_paths>>
    /\ UNCHANGED <<detVars, pipeVars, callVars>>

\* extract_transcript: whisper.load_model and transcribe
XTranscribe ==
    /\ xpc = "transcribe"
    /\ \E transcribed \in BOOLEAN :
          IF transcribed
          THEN /\ xres' = [xres EXCEPT !.text = "transcript"]
               /\ xpc' = "probe"
               /\ UNCHANGED xerr
          ELSE XRaise(ErrWhisper) /\ UNCHANGED xres
    /\ UNCHANGED <<xcall, probes, video, frame_interval, frame_count, current_frame,
                   extracted_paths>>
    /\ UNCHANGED <<detVars, pipeVars, callVars>>

\* the step after extract_transcript has returned to extract_content
AfterTranscript ==
    IF xcall.content_type = VIDEO /\ xcall.enable_frames /\ xcall.output_dir
    THEN "frames_open" ELSE "returned"

\* extract_transcript: duration = get_video_duration(..) or get_audio_duration(..),
\* content_type = detect_content_type(file_path) or AUDIO, the metadata and the result
XProbeDuration ==
    /\ xpc = "probe"
    /\ \E o1, o2 \in ProbeFailures \cup {ProbeOk}, s1, s2 \in Durations :
          LET first == get_video_duration(o1, s1)
              second == get_audio_duration(o2, s2)
              detected == detect_content_type(file.name)
          IN  IF first.raised # None
              THEN /\ probes' = <<o1>>
                   /\ XRaise(first.raised)
                   /\ UNCHANGED xres
              ELSE IF DurationTruthy(first.value)
              THEN /\ probes' = <<o1>>
                   /\ xres' = [xres EXCEPT
                                 !.duration = first.value,
                                 !.content_type = IF detected # None THEN detected ELSE AUDIO]
                   /\ xpc' = AfterTranscript
                   /\ UNCHANGED xerr
              ELSE IF second.raised # None
              THEN /\ probes' = <<o1, o2>>
                   /\ XRaise(second.raised)
                   /\ UNCHANGED xres
              ELSE /\ probes' = <<o1, o2>>
                   /\ xres' = [xres EXCEPT
                                 !.duration = second.value,
                                 !.content_type = IF detected # None THEN detected ELSE AUDIO]
                   /\ xpc' = AfterTranscript
                   /\ UNCHANGED xerr
    /\ UNCHANGED <<xcall, video, frame_interval, frame_count, current_frame,
                   extracted_paths>>
    /\ UNCHANGED <<detVars, pipeVars, callVars>>

\* extract_frames: cv2.VideoCapture, isOpened, fps and the frame interval
XFramesOpen ==
    /\ xpc = "frames_open"
    /\ \E opened \in BOOLEAN :
          IF opened
          THEN /\ \E fps \in FpsValues, readable \in ReadableCounts :
                      /\ video' = [fps |-> fps, readable |-> readable]
                      /\ frame_interval' = FrameInterval(fps, xcall.frame_interval)
               /\ xpc' = "frames_loop"
               /\ UNCHANGED xerr
          ELSE /\ XRaise(ErrVideoOpen)
               /\ UNCHANGED <<video, frame_interval>>
    /\ UNCHANGED <<xcall, xres, probes, frame_count, current_frame, extracted_paths>>
    /\ UNCHANGED <<detVars, pipeVars, callVars>>

\* the loop left one frame late: frame_count > max_frames
XFramesLoopOffByOne ==
    /\ xpc = "frames_loop"
    /\ IF ~(current_frame < video.readable) \/ frame_count > xcall.max_frames
       THEN /\ xpc' = "returned"
            /\ xres' = IF xcall.entry = "extract_content"
                       THEN [xres EXCEPT !.image_paths = extracted_paths]
                       ELSE xres
            /\ UNCHANGED <<frame_count, current_frame, extracted_paths>>
       ELSE /\ extracted_paths' =
                  Append(extracted_paths, FramePath(frame_count, current_frame, video.fps))
            /\ frame_count' = frame_count + 1
            /\ current_frame' = current_frame + frame_interval
            /\ UNCHANGED <<xpc, xres>>
    /\ UNCHANGED <<xcall, xerr, probes, video, frame_interval>>
    /\ UNCHANGED <<detVars, pipeVars, callVars>>

\* extract_frames: one pass of the while loop; the break releases the video
\* and returns, and extract_content stores the paths in result.image_paths
XFramesLoop ==
    /\ xpc = "frames_loop"
    /\ IF ~(current_frame < video.readable) \/ frame_count >= xcall.max_frames
       THEN /\ xpc' = "returned"
            /\ xres' = IF xcall.entry = "extract_content"
                       THEN [xres EXCEPT !.image_paths = extracted_paths]
                       ELSE xres
            /\ UNCHANGED <<frame_count, current_frame, extracted_paths>>
       ELSE /\ extracted_paths' =
                  Append(extracted_paths, FramePath(frame_count, current_frame, video.fps))
            /\ frame_count' = frame_count + 1
            /\ current_frame' = current_frame + frame_interval
            /\ UNCHANGED <<xpc, xres>>
    /\ UNCHANGED <<xcall, xerr, probes, video, frame_interval>>
    /\ UNCHANGED <<detVars, pipeVars, callVars>>

\* extract_document: the extractor picked by the extension
XDocument ==
    /\ xpc = "document"
    /\ IF get_file_extension(file.name) \in
             {<<".","p","d","f">>, <<".","d","o","c","x">>, <<".","m","d">>, <<".","t","x","t">>}
       THEN \E read \in BOOLEAN :
               IF read
               THEN /\ xres' = [xres EXCEPT !.content_type = DOCUMENT, !.text = "document"]
                    /\ xpc' = "returned"
                    /\ UNCHANGED xerr
               ELSE XRaise(ErrLibrary) /\ UNCHANGED xres
       ELSE XRaise(ErrUnsupportedDocument) /\ UNCHANGED xres
    /\ UNCHANGED <<xcall, probes, video, frame_interval, frame_count, current_frame,
                   extracted_paths>>
    /\ UNCHANGED <<detVars, pipeVars, callVars>>

\* extract_presentation: extract_pptx for .pptx, extract_pdf for .pdf
XPresentation ==
    /\ xpc = "presentation"
    /\ IF get_file_extension(file.name) \in {<<".","p","p","t","x">>, <<".","p","d","f">>}
       THEN \E read \in BOOLEAN :
               IF read
               THEN /\ xres' = IF get_file_extension(file.name) = <<".","p","p","t","x">>
                               THEN [xres EXCEPT !.content_type = PRESENTATION,
                                                 !.text = "slides"]
                               ELSE [xres EXCEPT !.content_type = DOCUMENT,
                                                 !.text = "document"]
                    /\ xpc' = "returned"
                    /\ UNCHANGED xerr
               ELSE XRaise(ErrLibrary) /\ UNCHANGED xres
       ELSE XRaise(ErrUnsupportedPresentation) /\ UNCHANGED xres
    /\ UNCHANGED <<xcall, probes, video, frame_interval, frame_count, current_frame,
                   extracted_paths>>
    /\ UNCHANGED <<detVars, pipeVars, callVars>>

NextExtract ==
    \/ XDispatch
    \/ XTranscribe
    \/ XProbeDuration
    \/ XFramesOpen
    \/ XFramesLoop
    \/ XDocument
    \/ XPresentation

SpecExtract == InitExtract /\ [][NextExtract]_vars

\* ------------------------------------------------------------------------
\* types.py: Severity, QuestionCategory; constants.py: EXECUTIVE_PERSONAS
\* ------------------------------------------------------------------------
HIGH == "high"
MEDIUM == "medium"
LOW == "low"
Severity == {HIGH, MEDIUM, LOW}

STRATEGIC == "strategic"
TECHNICAL == "technical"
FINANCIAL == "financial"
OPERATIONAL == "operational"
SECURITY == "security"

\* constants.py EXECUTIVE_PERSONAS: type, title, focus_areas and key_concerns
\* of each catalog persona; a focus area is a sequence of characters
EXECUTIVE_PERSONAS(persona_type) ==
    CASE persona_type = CEO ->
        [type |-> CEO, title |-> "CEO",
         focus_areas |-> <<
            <<"S","t","r","a","t","e","g","i","c"," ","v","i","s","i","o","n">>,
            <<"M","a","r","k","e","t"," ","p","o","s","i","t","i","o","n","i","n","g">>,
            <<"C","o","m","p","e","t","i","t","i","v","e"," ","a","d","v","a","n","t","a","g","e">>,
            <<"C","o","m","p","a","n","y"," ","a","l","i","g","n","m","e","n","t">>,
            <<"L","o","n","g","-","t","e","r","m"," ","v","a","l","u","e">>,
            <<"S","t","a","k","e","h","o","l","d","e","r"," ","i","m","p","a","c","t">> >>,
         key_concerns |-> <<
            "Does this align with our 3-year roadmap?",
            "What's the competitive advantage?",
            "How does this affect our market position?",
            "What's the impact on our stakeholders?",
            "Is this the best use of our resources?" >>]
      [] persona_type = CFO ->
        [type |-> CFO, title |-> "CFO",
         focus_areas |-> <<
            <<"T","o","t","a","l"," ","c","o","s","t"," ","o","f"," ","o","w","n","e","r","s","h","i","p">>,
            <<"R","e","t","u","r","n"," ","o","n"," ","i","n","v","e","s","t","m","e","n","t">>,
            <<"B","u","d","g","e","t"," ","a","l","l","o","c","a","t","i","o","n">>,
            <<"F","i","n","a","n","c","i","a","l"," ","r","i","s","k">>,
            <<"P","a","y","b","a","c","k"," ","p","e","r","i","o","d">>,
            <<"R","e","s","o","u","r","c","e"," ","e","f","f","i","c","i","e","n","c","y">> >>,
         key_concerns |-> <<
            "What's the total cost of ownership?",
            "What's the expected ROI and payback period?",
            "How does this fit into our budget?",
            "What are the hidden costs?",
            "What's the financial risk if this fails?" >>]
      [] persona_type = CTO ->
        [type |-> CTO, title |-> "CTO",
         focus_areas |-> <<
            <<"T","e","c","h","n","i","c","a","l"," ","a","r","c","h","i","t","e","c","t","u","r","e">>,
            <<"S","c","a","l","a","b","i","l","i","t","y">>,
            <<"I","n","t","e","g","r","a","t","i","o","n"," ","c","o","m","p","l","e","x","i","t","y">>,
            <<"T","e","c","h","n","i","c","a","l"," ","d","e","b","t">>,
            <<"S","e","c","u","r","i","t","y"," ","a","r","c","h","i","t","e","c","t","u","r","e">>,
            <<"T","e","c","h","n","o","l","o","g","y"," ","s","t","a","n","d","a","r","d","s">> >>,
         key_concerns |-> <<
            "How does this integrate with our existing stack?",
            "What's the architectural impact?",
            "How does this scale?",
            "What technical debt does this create?",
            "What are the performance implications?" >>]
      [] persona_type = VP_PRODUCT ->
        [type |-> VP_PRODUCT, title |-> "VP of Product",
         focus_areas |-> <<
            <<"U","s","e","r"," ","v","a","l","u","e">>,
            <<"P","r","o","d","u","c","t","-","m","a","r","k","e","t"," ","f","i","t">>,
            <<"F","e","a","t","u","r","e"," ","p","r","i","o","r","i","t","i","z","a","t","i","o","n">>,
            <<"R","o","a","d","m","a","p"," ","i","m","p","a","c","t">>,
            <<"C","u","s","t","o","m","e","r"," ","n","e","e","d","s">>,
            <<"C","o","m","p","e","t","i","t","i","v","e"," ","f","e","a","t","u","r","e","s">> >>,
         key_concerns |-> <<
            "What problem does this solve for users?",
            "How does this affect our product roadmap?",
            "What's the user adoption risk?",
            "How does this compare to competitor solutions?",
            "What's the MVP vs full vision?" >>]
      [] persona_type = CISO ->
        [type |-> CISO, title |-> "CISO",
         focus_areas |-> <<
            <<"S","e","c","u","r","i","t","y"," ","p","o","s","t","u","r","e">>,
            <<"C","o","m","p","l","i","a","n","c","e"," ","r","e","q","u","i","r","e","m","e","n","t","s">>,
            <<"D","a","t","a"," ","p","r","i","v","a","c","y">>,
            <<"A","t","t","a","c","k"," ","s","u","r","f","a","c","e">>,
            <<"R","i","s","k"," ","a","s","s","e","s","s","m","e","n","t">>,
            <<"I","n","c","i","d","e","n","t"," ","r","e","s","p","o","n","s","e">> >>,
         key_concerns |-> <<
            "What's the attack surface?",
            "Is this SOC2/GDPR/HIPAA compliant?",
            "How is data protected at rest and in transit?",
            "What access controls are in place?",
            "What's the incident response plan?" >>]
      [] persona_type = VP_OPERATIONS ->
        [type |-> VP_OPERATIONS, title |-> "VP of Operations",
         focus_areas |-> <<
            <<"I","m","p","l","e","m","e","n","t","a","t","i","o","n"," ","c","o","m","p","l","e","x","i","t","y">>,
            <<"R","o","l","l","o","u","t"," ","p","l","a","n","n","i","n","g">>,
            <<"T","r","a","i","n","i","n","g"," ","r","e","q","u","i","r","e","m","e","n","t","s">>,
            <<"C","h","a","n","g","e"," ","m","a","n","a","g","e","m","e","n","t">>,
            <<"O","p","e","r","a","t","i","o","n","a","l"," ","e","f","f","i","c","i","e","n","c","y">>,
            <<"S","u","p","p","o","r","t"," ","b","u","r","d","e","n">> >>,
         key_concerns |-> <<
            "What's the rollout plan?",
            "What training is required?",
            "How does this affect existing workflows?",
            "What's the support burden?",
            "What's the change management strategy?" >>]

\* get_persona(persona_type)
get_persona(persona_type) == EXECUTIVE_PERSONAS(persona_type)

\* ------------------------------------------------------------------------
\* analyze.py: the template analysis of one persona
\* ------------------------------------------------------------------------
IndexError == "IndexError: list index out of range"

\* list[:n]
Slice(list, n) == SubSeq(list, 1, IF Len(list) < n THEN Len(list) ELSE n)

\* category_map of _generate_persona_questions
category_map(persona_type) ==
    CASE persona_type = CEO -> STRATEGIC
      [] persona_type = CFO -> FINANCIAL
      [] persona_type = CTO -> TECHNICAL
      [] persona_type = VP_PRODUCT -> STRATEGIC
      [] persona_type = CISO -> SECURITY
      [] persona_type = VP_OPERATIONS -> OPERATIONAL
      [] OTHER -> STRATEGIC

\* _generate_persona_questions: one question per key concern of the first
\* five; the suggested response of each reads persona.focus_areas[0]
generate_persona_questions(persona, content) ==
    LET prompts == Slice(persona.key_concerns, 5)
    IN  IF prompts # <<>> /\ persona.focus_areas = <<>>
        THEN [raised |-> IndexError, value |-> <<>>]
        ELSE [raised |-> None,
              value |->
                [i \in 1..Len(prompts) |->
                    [text |-> prompts[i],
                     category |-> category_map(persona.type),
                     reasoning |->
                        <<"As ", persona.title, ", this is a core area of responsibility.">>,
                     suggested_response |->
                        <<"Prepare data and examples that address this from a ",
                          persona.title, " perspective, focusing on ",
                          persona.focus_areas[1], ".">>]]]

\* a concern for every focus area, not the first three only
generate_persona_concerns_unsliced(persona, content) ==
    [raised |-> None,
     value |->
        [i \in 1..Len(persona.focus_areas) |->
            [title |-> <<persona.focus_areas[i], " Assessment">>,
             description |->
                <<"Content should address ", Lower(persona.focus_areas[i]),
                  " considerations.">>,
             severity |-> IF i - 1 = 0 THEN HIGH ELSE IF i - 1 = 1 THEN MEDIUM ELSE LOW,
             why_it_matters |->
                <<"As ", persona.title, ", ", Lower(persona.focus_areas[i]),
                  " is a critical factor in evaluating any initiative.">>]]]

\* _generate_persona_concerns: enumerate(persona.focus_areas[:3])
generate_persona_concerns(persona, content) ==
    LET areas == Slice(persona.focus_areas, 3)
    IN  [raised |-> None,
         value |->
            [i \in 1..Len(areas) |->
                [title |-> <<areas[i], " Assessment">>,
                 description |->
                    <<"Content should address ", Lower(areas[i]), " considerations.">>,
                 severity |-> IF i - 1 = 0 THEN HIGH ELSE IF i - 1 = 1 THEN MEDIUM ELSE LOW,
                 why_it_matters |->
                    <<"As ", persona.title, ", ", Lower(areas[i]),
                      " is a critical factor in evaluating any initiative.">>]]]

\* analyze.py _generate_persona_followups: the follow-up requests of each type
generate_persona_followups(persona) ==
    CASE persona.type = CEO ->
        <<"Schedule a strategic alignment review with leadership team",
          "Provide competitive analysis and market positioning data",
          "Present 3-year impact projection">>
      [] persona.type = CFO ->
        <<"Provide detailed TCO breakdown",
          "Submit ROI analysis with assumptions documented",
          "Present budget allocation proposal">>
      [] persona.type = CTO ->
        <<"Provide architectural documentation",
          "Schedule technical deep-dive with engineering team",
          "Present integration assessment and timeline">>
      [] persona.type = VP_PRODUCT ->
        <<"Present user research and feedback data",
          "Provide roadmap impact analysis",
          "Schedule product strategy alignment meeting">>
      [] persona.type = CISO ->
        <<"Submit security assessment documentation",
          "Provide compliance certification details",
          "Present data flow and access control diagrams">>
      [] persona.type = VP_OPERATIONS ->
        <<"Provide implementation timeline and milestones",
          "Submit training and change management plan",
          "Present operational impact assessment">>
      [] OTHER -> <<"Schedule follow-up meeting">>

\* _generate_persona_risks: one risk, from persona.focus_areas[0]
generate_persona_risks(persona, content) ==
    IF persona.focus_areas = <<>>
    THEN [raised |-> IndexError, value |-> <<>>]
    ELSE [raised |-> None,
          value |->
            << [title |-> <<persona.focus_areas[1], " Risk">>,
                impact |->
                    <<"Failure to address ", Lower(persona.focus_areas[1]),
                      " could impact initiative success.">>,
                mitigation |->
                    <<"Ensure ", Lower(persona.focus_areas[1]),
                      " requirements are documented and validated before proceeding.">>] >>]

\* the priorities following the position, as the severities of the concerns do
generate_persona_recommendations_by_position(persona) ==
    IF Len(persona.focus_areas) < 3
    THEN [raised |-> IndexError, value |-> <<>>]
    ELSE [raised |-> None,
          value |->
            << [text |-> <<"Lead with ", Lower(persona.focus_areas[1]), " to capture ",
                           persona.title, " attention.">>,
                priority |-> HIGH],
               [text |-> <<"Prepare quantifiable metrics related to ",
                           Lower(persona.focus_areas[2]), ".">>,
                priority |-> MEDIUM],
               [text |-> <<"Anticipate questions about ",
                           Lower(persona.focus_areas[3]), ".">>,
                priority |-> LOW] >>]

\* _generate_persona_recommendations: focus_areas[0], [1] and [2]
generate_persona_recommendations(persona) ==
    IF Len(persona.focus_areas) < 3
    THEN [raised |-> IndexError, value |-> <<>>]
    ELSE [raised |-> None,
          value |->
            << [text |-> <<"Lead with ", Lower(persona.focus_areas[1]), " to capture ",
                           persona.title, " attention.">>,
                priority |-> HIGH],
               [text |-> <<"Prepare quantifiable metrics related to ",
                           Lower(persona.focus_areas[2]), ".">>,
                priority |-> MEDIUM],
               [text |-> <<"Anticipate questions about ",
                           Lower(persona.focus_areas[3]), ".">>,
                priority |-> MEDIUM] >>]

\* AnalysisResult(persona=...)
AnalysisResult(persona, questions, concerns, followups, risks, recommendations) ==
    [persona |-> persona, questions |-> questions, concerns |-> concerns,
     followups |-> followups, risks |-> risks, recommendations |-> recommendations]

\* the questions left out when the content has no text
analyze_for_persona_reading_content(content, persona) ==
    LET questions == generate_persona_questions(persona, content)
        concerns == generate_persona_concerns(persona, content)
        risks == generate_persona_risks(persona, content)
        recommendations == generate_persona_recommendations(persona)
    IN  IF questions.raised # None \/ risks.raised # None \/ recommendations.raised # None
        THEN [raised |-> IndexError,
              value |-> AnalysisResult(persona, <<>>, <<>>, <<>>, <<>>, <<>>)]
        ELSE [raised |-> None,
              value |-> AnalysisResult(persona,
                                       IF content.text = "" THEN <<>> ELSE questions.value,
                                       concerns.value,
                                       generate_persona_followups(persona), risks.value,
                                       recommendations.value)]

\* analyze_for_persona: the five generators in turn; the first IndexError
\* leaves the call
analyze_for_persona(content, persona) ==
    LET questions == generate_persona_questions(persona, content)
        concerns == generate_persona_concerns(persona, content)
        risks == generate_persona_risks(persona, content)
        recommendations == generate_persona_recommendations(persona)
    IN  IF questions.raised # None \/ risks.raised # None \/ recommendations.raised # None
        THEN [raised |-> IndexError,
              value |-> AnalysisResult(persona, <<>>, <<>>, <<>>, <<>>, <<>>)]
        ELSE [raised |-> None,
              value |-> AnalysisResult(persona, questions.value, concerns.value,
                                       generate_persona_followups(persona), risks.value,
                                       recommendations.value)]

\* ------------------------------------------------------------------------
\* report.py: generate_persona_section, the Key Concerns table
\* ------------------------------------------------------------------------
severity_icon(severity) ==
    CASE severity = HIGH -> "High"
      [] severity = MEDIUM -> "Medium"
      [] severity = LOW -> "Low"
      [] OTHER -> severity

\* the rows under the table header: one per concern of the analysis
KeyConcernsRows(analysis) ==
    [i \in 1..Len(analysis.concerns) |->
        [concern |-> analysis.concerns[i].title,
         severity |-> severity_icon(analysis.concerns[i].severity),
         why_it_matters |-> analysis.concerns[i].why_it_matters]]

\* ------------------------------------------------------------------------
\* analyze.py: get_consolidated_questions, get_consolidated_concerns
\* ------------------------------------------------------------------------
\* for analysis in analyses: ... analysis.questions, one after the other
RECURSIVE AllQuestions(_)
AllQuestions(analyses) ==
    IF analyses = <<>> THEN <<>>
    ELSE Head(analyses).questions \o AllQuestions(Tail(analyses))

\* the loop body: a question is appended unless its text is in seen_texts
RECURSIVE KeepUnseen(_, _)
KeepUnseen(questions, seen_texts) ==
    IF questions = <<>> THEN <<>>
    ELSE IF Head(questions).text \in seen_texts
         THEN KeepUnseen(Tail(questions), seen_texts)
         ELSE <<Head(questions)>>
                \o KeepUnseen(Tail(questions), seen_texts \cup {Head(questions).text})

\* a question appended unless the very same question (text and category)
\* was seen
RECURSIVE KeepUnseenQuestion(_, _)
KeepUnseenQuestion(questions, seen) ==
    IF questions = <<>> THEN <<>>
    ELSE IF Head(questions) \in seen
         THEN KeepUnseenQuestion(Tail(questions), seen)
         ELSE <<Head(questions)>>
                \o KeepUnseenQuestion(Tail(questions), seen \cup {Head(questions)})

get_consolidated_questions_whole(analyses) ==
    KeepUnseenQuestion(AllQuestions(analyses), {})

get_consolidated_questions(analyses) == KeepUnseen(AllQuestions(analyses), {})

\* concerns.extend(analysis.concerns) for each analysis
RECURSIVE AllConcerns(_)
AllConcerns(analyses) ==
    IF analyses = <<>> THEN <<>>
    ELSE Head(analyses).concerns \o AllConcerns(Tail(analyses))

\* severity_order.get(c.severity, 3)
severity_order(severity) ==
    CASE severity = HIGH -> 0
      [] severity = MEDIUM -> 1
      [] severity = LOW -> 2
      [] OTHER -> 3

\* list.sort(key=...) is stable: an item goes behind the items already
\* placed whose key is not larger
RECURSIVE InsertBehind(_, _)
InsertBehind(c, sorted) ==
    IF sorted = <<>> THEN <<c>>
    ELSE IF severity_order(Head(sorted).severity) <= severity_order(c.severity)
         THEN <<Head(sorted)>> \o InsertBehind(c, Tail(sorted))
         ELSE <<c>> \o sorted

RECURSIVE SortBySeverity(_, _)
SortBySeverity(concerns, sorted) ==
    IF concerns = <<>> THEN sorted
    ELSE SortBySeverity(Tail(concerns), InsertBehind(Head(concerns), sorted))

\* an item placed in front of the items of the same key
RECURSIVE InsertInFront(_, _)
InsertInFront(c, sorted) ==
    IF sorted = <<>> THEN <<c>>
    ELSE IF severity_order(Head(sorted).severity) < severity_order(c.severity)
         THEN <<Head(sorted)>> \o InsertInFront(c, Tail(sorted))
         ELSE <<c>> \o sorted

RECURSIVE SortUnstable(_, _)
SortUnstable(concerns, sorted) ==
    IF concerns = <<>> THEN sorted
    ELSE SortUnstable(Tail(concerns), InsertInFront(Head(concerns), sorted))

get_consolidated_concerns_unstable(analyses) == SortUnstable(AllConcerns(analyses), <<>>)

get_consolidated_concerns(analyses) == SortBySeverity(AllConcerns(analyses), <<>>)

\* ------------------------------------------------------------------------
\* utils.py: truncate_text
\* ------------------------------------------------------------------------
\* text[:k]: a negative k counts from the end
SliceTo(text, k) ==
    IF k >= 0
    THEN SubSeq(text, 1, IF Len(text) < k THEN Len(text) ELSE k)
    ELSE SubSeq(text, 1, IF Len(text) + k < 0 THEN 0 ELSE Len(text) + k)

\* suffix: str = "..."
DefaultSuffix == <<".", ".", ".">>

\* the suffix appended to the first max_length characters
truncate_text_whole_length(text, max_length, suffix) ==
    IF Len(text) <= max_length THEN text
    ELSE SliceTo(text, max_length) \o suffix

truncate_text(text, max_length, suffix) ==
    IF Len(text) <= max_length THEN text
    ELSE SliceTo(text, max_length - Len(suffix)) \o suffix

\* ------------------------------------------------------------------------
\* extract.py: extract_markdown, extract_text_file
\* ------------------------------------------------------------------------
CR == "\r"
LF == "\n"

\* a byte that is not UTF-8
BadByte == "<ff>"

UnicodeDecodeError == "UnicodeDecodeError"

\* f.read() of a file opened with open(path, "r"): newline=None, so "\r\n"
\* and a lone "\r" are both read as "\n"
RECURSIVE TranslateNewlines(_)
TranslateNewlines(raw) ==
    IF raw = <<>> THEN <<>>
    ELSE IF Head(raw) = CR
         THEN <<LF>> \o TranslateNewlines(IF Len(raw) >= 2 /\ raw[2] = LF
                                          THEN SubSeq(raw, 3, Len(raw))
                                          ELSE Tail(raw))
         ELSE <<Head(raw)>> \o TranslateNewlines(Tail(raw))

\* open(file_path, "r", encoding="utf-8") and f.read(): strict decoding
ReadText(raw) ==
    IF \E i \in 1..Len(raw) : raw[i] = BadByte
    THEN [raised |-> UnicodeDecodeError, value |-> <<>>]
    ELSE [raised |-> None, value |-> TranslateNewlines(raw)]

\* extract_markdown: ExtractionResult(metadata, text=text)
extract_markdown(raw) ==
    LET text == ReadText(raw)
    IN  IF text.raised # None
        THEN [raised |-> text.raised, value |-> EmptyResult]
        ELSE [raised |-> None,
              value |-> [EmptyResult EXCEPT !.content_type = DOCUMENT,
                                            !.text = text.value]]

\* extract_text_file: ExtractionResult(metadata, text=text)
extract_text_file(raw) ==
    LET text == ReadText(raw)
    IN  IF text.raised # None
        THEN [raised |-> text.raised, value |-> EmptyResult]
        ELSE [raised |-> None,
              value |-> [EmptyResult EXCEPT !.content_type = DOCUMENT,
                                            !.text = text.value]]

\* ------------------------------------------------------------------------
\* utils.py: clean_text; extract.py: extract_pdf
\* ------------------------------------------------------------------------
\* the characters \s matches, of those a model text holds
CleanWhitespace == {" ", LF, CR}

\* re.sub(r"\s+", " ", text): every run of whitespace becomes one blank
RECURSIVE CollapseWhitespace(_)
CollapseWhitespace(text) ==
    IF text = <<>> THEN <<>>
    ELSE IF Head(text) \in CleanWhitespace
         THEN IF Len(text) >= 2 /\ text[2] \in CleanWhitespace
              THEN CollapseWhitespace(Tail(text))
              ELSE <<" ">> \o CollapseWhitespace(Tail(text))
         ELSE <<Head(text)>> \o CollapseWhitespace(Tail(text))

\* clean_text: the runs collapsed, then text.strip()
clean_text(text) == Strip(CollapseWhitespace(text))

\* "\n".join(parts)
RECURSIVE JoinLines(_)
JoinLines(parts) ==
    IF parts = <<>> THEN <<>>
    ELSE IF Len(parts) = 1 THEN parts[1]
    ELSE parts[1] \o <<LF>> \o JoinLines(Tail(parts))

Digits == <<"1", "2", "3", "4", "5", "6", "7", "8", "9">>

\* f"--- Page {page_num + 1} ---", page_num + 1 given
PageHeader(number) ==
    <<"-", "-", "-", " ", "P", "a", "g", "e", " ", Digits[number], " ", "-", "-", "-">>

\* what happens to one embedded image: saved as it is, saved after the
\* conversion from CMYK, or an exception from fitz.Pixmap, from the
\* conversion or from pix.save
ImgRgb == "rgb"
ImgCmyk == "cmyk"
ImgBadPixmap == "Pixmap raises"
ImgBadConvert == "conversion raises"
ImgBadSave == "save raises"
ImageOutcomes == {ImgRgb, ImgCmyk, ImgBadPixmap, ImgBadConvert, ImgBadSave}

OSError == "OSError"

\* the first exception ends the images of the page
RECURSIVE PageImages_try_around_loop(_, _, _)
PageImages_try_around_loop(number, image_list, img_idx) ==
    IF img_idx > Len(image_list) THEN <<>>
    ELSE IF image_list[img_idx] \in {ImgRgb, ImgCmyk}
         THEN <<[page |-> number, img |-> img_idx]>>
                  \o PageImages_try_around_loop(number, image_list, img_idx + 1)
         ELSE <<>>

\* for img_idx, img in enumerate(image_list): try ... except Exception: pass;
\* the paths page<N>_img<M>.png appended for the images that were saved
RECURSIVE PageImages(_, _, _)
PageImages(number, image_list, img_idx) ==
    IF img_idx > Len(image_list) THEN <<>>
    ELSE (IF image_list[img_idx] \in {ImgRgb, ImgCmyk}
          THEN <<[page |-> number, img |-> img_idx]>>
          ELSE <<>>)
             \o PageImages(number, image_list, img_idx + 1)

\* for page_num, page in enumerate(doc): the two text parts of the page, and
\* its images when an output directory was given
RECURSIVE PdfPages(_, _, _)
PdfPages(pages, number, output_dir) ==
    IF number > Len(pages) THEN [text_parts |-> <<>>, image_paths |-> <<>>]
    ELSE LET rest == PdfPages(pages, number + 1, output_dir)
         IN  [text_parts |-> <<PageHeader(number), pages[number].text>> \o rest.text_parts,
              image_paths |->
                  (IF output_dir THEN PageImages(number, pages[number].images, 1)
                   ELSE <<>>) \o rest.image_paths]

\* extract_pdf(file_path, output_dir): fitz.open raises on a file it cannot
\* read, ensure_directory raises when the images directory cannot be made
extract_pdf(doc, output_dir, dir_ok) ==
    IF ~doc.opens
    THEN [raised |-> ErrLibrary, value |-> EmptyResult, page_count |-> 0]
    ELSE IF output_dir /\ doc.pages # <<>> /\ ~dir_ok
    THEN [raised |-> OSError, value |-> EmptyResult, page_count |-> 0]
    ELSE LET read == PdfPages(doc.pages, 1, output_dir)
         IN  [raised |-> None,
              value |-> [EmptyResult EXCEPT !.content_type = DOCUMENT,
                                            !.text = clean_text(JoinLines(read.text_parts)),
                                            !.image_paths = read.image_paths],
              page_count |-> Len(doc.pages)]

\* ------------------------------------------------------------------------
\* report.py: the Markdown report, a list of lines joined with "\n"
\* ------------------------------------------------------------------------
\* one line of Markdown: an f-string, its text with {} for every value put in
Line(fmt, values) == [fmt |-> fmt, values |-> values]

Blank == Line("", <<>>)
Rule == Line("---", <<>>)

\* the line of three backquotes that opens and closes a code block
Fence == Line("(code fence)", <<>>)

\* the lines of several lists of lines, one list after the other
RECURSIVE Concat(_)
Concat(lists) ==
    IF lists = <<>> THEN <<>> ELSE Head(lists) \o Concat(Tail(lists))

\* utils.py get_content_type_display
get_content_type_display(content_type) ==
    CASE content_type = VIDEO -> "Video"
      [] content_type = AUDIO -> "Audio"
      [] content_type = DOCUMENT -> "Document"
      [] content_type = PRESENTATION -> "Presentation"
      [] OTHER -> "Unknown"

\* utils.py format_duration: "{h}h {m}m {s}s", "{m}m {s}s" or "{s}s"
format_duration(seconds) ==
    LET hours == seconds \div 3600
        minutes == (seconds % 3600) \div 60
        secs == seconds % 60
    IN  IF hours > 0 THEN <<hours, "h ", minutes, "m ", secs, "s">>
        ELSE IF minutes > 0 THEN <<minutes, "m ", secs, "s">>
        ELSE <<secs, "s">>

\* utils.py format_file_size: the size divided by 1024 until it is under 1024,
\* printed with one decimal (here in tenths) and the unit reached
RECURSIVE FormatTenths(_, _)
FormatTenths(tenths, units) ==
    IF Len(units) = 1 \/ tenths < 10240 THEN <<tenths \div 10, ".", tenths % 10, " ", units[1]>>
    ELSE FormatTenths((tenths + 512) \div 1024, Tail(units))

format_file_size(bytes) == FormatTenths(bytes * 10, <<"B", "KB", "MB", "GB", "TB">>)

\* the seconds printed as well
strftime_with_seconds(now) ==
    LET hour == now.second \div 3600
    IN  <<"day ", now.day, " at ", IF hour % 12 = 0 THEN 12 ELSE hour % 12, ":",
          (now.second % 3600) \div 60, ":", now.second % 60, " ",
          IF hour < 12 THEN "AM" ELSE "PM">>

\* datetime.now().strftime('%B %d, %Y at %I:%M %p') of a clock reading of
\* day and second of the day: the day, the hour on the 12-hour dial, the
\* minute, AM or PM; the seconds are not printed
strftime(now) ==
    LET hour == now.second \div 3600
    IN  <<"day ", now.day, " at ", IF hour % 12 = 0 THEN 12 ELSE hour % 12, ":",
          (now.second % 3600) \div 60, " ", IF hour < 12 THEN "AM" ELSE "PM">>

\* page_count and slide_count: Optional[int], absent by default
NoCount == -1

\* Python truth of an Optional[int]: None and 0 are false
CountTruthy(count) == count # NoCount /\ count # 0

\* language: Optional[str], a string of characters; None and "" are false
NoLanguage == <<>>

\* str.upper()
UpperChar(c) ==
    IF \E u \in UpperCase : LowerOf[u] = c
    THEN CHOOSE u \in UpperCase : LowerOf[u] = c
    ELSE c

Upper(s) == [i \in 1..Len(s) |-> UpperChar(s[i])]

\* generate_header(content, enable_frame_analysis), and the clock it reads
generate_header(content, enable_frame_analysis, now) ==
    LET metadata == content.metadata
    IN  << Line("# Executive Review: {}", <<metadata.file_name>>),
           Blank,
           Line("**Reviewed**: {}", <<strftime(now)>>),
           Line("**Content Type**: {}", <<get_content_type_display(metadata.content_type)>>),
           Line("**File Size**: {}", <<format_file_size(metadata.file_size_bytes)>>) >>
        \o (IF DurationTruthy(metadata.duration_seconds)
            THEN <<Line("**Duration**: {}", <<format_duration(metadata.duration_seconds)>>)>>
            ELSE <<>>)
        \o (IF CountTruthy(metadata.page_count)
            THEN <<Line("**Pages**: {}", <<metadata.page_count>>)>> ELSE <<>>)
        \o (IF CountTruthy(metadata.slide_count)
            THEN <<Line("**Slides**: {}", <<metadata.slide_count>>)>> ELSE <<>>)
        \o (IF metadata.language # NoLanguage
            THEN <<Line("**Language**: {}", <<Upper(metadata.language)>>)>> ELSE <<>>)
        \o (IF metadata.content_type = VIDEO
            THEN <<Line("**Frame Analysis**: {}",
                        <<IF enable_frame_analysis THEN "Enabled" ELSE "Disabled">>)>>
            ELSE <<>>)
        \o <<Blank, Rule, Blank>>

\* generate_content_summary(content, summary, key_topics); a summary, a list
\* of topics or of slides that is None counts as an empty one, as in Python
generate_content_summary(content, summary, key_topics) ==
    << Line("## Content Summary", <<>>), Blank >>
        \o (IF summary # <<>>
            THEN <<Line("{}", <<summary>>)>>
            ELSE <<Line("*{}*",
                        <<IF Len(content.text) > 500
                          THEN SubSeq(content.text, 1, 500) \o <<".", ".", ".">>
                          ELSE content.text>>)>>)
        \o <<Blank>>
        \o (IF key_topics # <<>>
            THEN <<Line("### Key Topics Covered", <<>>)>>
                 \o [i \in 1..Len(key_topics) |-> Line("- {}", <<key_topics[i]>>)]
                 \o <<Blank>>
            ELSE <<>>)
        \o (IF content.image_paths # <<>>
            THEN <<Line("### Visual Elements", <<>>),
                   Line("- {} images/frames extracted", <<Len(content.image_paths)>>),
                   Blank>>
            ELSE <<>>)
        \o (IF content.slides # <<>>
            THEN <<Line("### Presentation Structure", <<>>)>>
                 \o [i \in 1..Len(Slice(content.slides, 5)) |->
                        Line("- Slide {}: {}",
                             <<content.slides[i].slide_number,
                               IF content.slides[i].title = ""
                               THEN "Untitled" ELSE content.slides[i].title>>)]
                 \o (IF Len(content.slides) > 5
                     THEN <<Line("- ... and {} more slides", <<Len(content.slides) - 5>>)>>
                     ELSE <<>>)
                 \o <<Blank>>
            ELSE <<>>)
        \o <<Rule, Blank>>

\* q.category.value.title()
Title(category) ==
    CASE category = STRATEGIC -> "Strategic"
      [] category = TECHNICAL -> "Technical"
      [] category = FINANCIAL -> "Financial"
      [] category = OPERATIONAL -> "Operational"
      [] category = SECURITY -> "Security"
      [] OTHER -> category

\* the keys of the categories dict, in the order they were first inserted
RECURSIVE CategoriesInOrder(_, _)
CategoriesInOrder(questions, seen) ==
    IF questions = <<>> THEN seen
    ELSE CategoriesInOrder(
             Tail(questions),
             IF \E i \in 1..Len(seen) : seen[i] = Title(Head(questions).category)
             THEN seen ELSE Append(seen, Title(Head(questions).category)))

\* the questions of one category under their heading, numbered from 1
CategoryLines(category, questions) ==
    LET InCategory(q) == Title(q.category) = category
        mine == SelectSeq(questions, InCategory)
    IN  <<Line("#### {} Questions", <<category>>), Blank>>
        \o Concat([i \in 1..Len(mine) |->
                     << Line("{}. **{}**", <<i, mine[i].text>>),
                        Line("   - *Why they'd ask*: {}", <<mine[i].reasoning>>),
                        Line("   - *Suggested response*: {}", <<mine[i].suggested_response>>),
                        Blank >>])

\* the icon and name of a recommendation's priority
priority_icon(priority) ==
    CASE priority = HIGH -> "red"
      [] priority = MEDIUM -> "yellow"
      [] priority = LOW -> "green"
      [] OTHER -> "bullet"

\* generate_persona_section(analysis)
generate_persona_section(analysis) ==
    LET persona == analysis.persona
        rows == KeyConcernsRows(analysis)
        categories == CategoriesInOrder(analysis.questions, <<>>)
    IN  << Line("## Executive Analysis: {}", <<persona.title>>),
           Blank,
           Line("### Persona Profile", <<>>),
           Line("> {}", <<<<"perspective of ", persona.type>>>>),
           Blank >>
        \o (IF analysis.concerns # <<>>
            THEN << Line("### Key Concerns", <<>>), Blank,
                    Line("| Concern | Severity | Why It Matters |", <<>>),
                    Line("|---------|----------|----------------|", <<>>) >>
                 \o [i \in 1..Len(rows) |->
                        Line("| {} | {} | {} |",
                             <<rows[i].concern, rows[i].severity, rows[i].why_it_matters>>)]
                 \o <<Blank>>
            ELSE <<>>)
        \o (IF analysis.questions # <<>>
            THEN <<Line("### Questions They Would Ask", <<>>), Blank>>
                 \o Concat([i \in 1..Len(categories) |->
                              CategoryLines(categories[i], analysis.questions)])
            ELSE <<>>)
        \o (IF analysis.followups # <<>>
            THEN << Line("### Potential Follow-ups", <<>>), Blank,
                    Line("After initial presentation, expect these follow-up requests:", <<>>),
                    Blank >>
                 \o [i \in 1..Len(analysis.followups) |->
                        Line("- [ ] {}", <<analysis.followups[i]>>)]
                 \o <<Blank>>
            ELSE <<>>)
        \o (IF analysis.risks # <<>>
            THEN << Line("### Risk Areas Identified", <<>>), Blank,
                    Line("| Risk | Impact | Mitigation |", <<>>),
                    Line("|------|--------|------------|", <<>>) >>
                 \o [i \in 1..Len(analysis.risks) |->
                        Line("| {} | {} | {} |",
                             <<analysis.risks[i].title, analysis.risks[i].impact,
                               analysis.risks[i].mitigation>>)]
                 \o <<Blank>>
            ELSE <<>>)
        \o (IF analysis.recommendations # <<>>
            THEN <<Line("### Recommendations for This Audience", <<>>), Blank>>
                 \o [i \in 1..Len(analysis.recommendations) |->
                        Line("{}. {} {}",
                             <<i, priority_icon(analysis.recommendations[i].priority),
                               analysis.recommendations[i].text>>)]
                 \o <<Blank>>
            ELSE <<>>)
        \o <<Rule, Blank>>

\* f"{rec.text} ({analysis.persona.title})" for every recommendation of
\* every analysis, in the order of the two loops, with the priority it has
RECURSIVE ChecklistItems(_)
ChecklistItems(analyses) ==
    IF analyses = <<>> THEN <<>>
    ELSE [i \in 1..Len(Head(analyses).recommendations) |->
            [item |-> <<Head(analyses).recommendations[i].text,
                        Head(analyses).persona.title>>,
             priority |-> Head(analyses).recommendations[i].priority]]
         \o ChecklistItems(Tail(analyses))

IsHigh(entry) == entry.priority = HIGH
IsMedium(entry) == entry.priority = MEDIUM
IsOther(entry) == entry.priority # HIGH /\ entry.priority # MEDIUM

\* a bucket of the checklist: nothing when it is empty
Bucket(heading, items) ==
    IF items = <<>> THEN <<>>
    ELSE <<Line(heading, <<>>), Blank>>
         \o [i \in 1..Len(items) |-> Line("- [ ] {} ({})", items[i].item)]
         \o <<Blank>>

\* every recommendation that is not HIGH put under Should Prepare
generate_checklist_two_buckets(analyses) ==
    LET items == ChecklistItems(analyses)
        IsNotHigh(entry) == entry.priority # HIGH
    IN  << Line("## Overall Preparation Checklist", <<>>), Blank,
           Line("Based on analysis across all selected personas:", <<>>), Blank >>
        \o Bucket("### Must Address", SelectSeq(items, IsHigh))
        \o Bucket("### Should Prepare", SelectSeq(items, IsNotHigh))
        \o <<Rule, Blank>>

\* generate_checklist(analyses)
generate_checklist(analyses) ==
    LET items == ChecklistItems(analyses)
    IN  << Line("## Overall Preparation Checklist", <<>>), Blank,
           Line("Based on analysis across all selected personas:", <<>>), Blank >>
        \o Bucket("### Must Address", SelectSeq(items, IsHigh))
        \o Bucket("### Should Prepare", SelectSeq(items, IsMedium))
        \o Bucket("### Nice to Have", SelectSeq(items, IsOther))
        \o <<Rule, Blank>>

\* generate_appendix(content, include_full_text): "" without the full text
generate_appendix(content, include_full_text) ==
    IF ~include_full_text THEN <<Blank>>
    ELSE << Line("## Appendix", <<>>), Blank >>
         \o (IF content.metadata.content_type \in {VIDEO, AUDIO}
             THEN << Line("### Full Transcript", <<>>), Blank,
                     Line("<details>", <<>>),
                     Line("<summary>Click to expand transcript</summary>", <<>>),
                     Blank,
                     Fence,
                     Line("{}", <<content.text>>),
                     Fence,
                     Blank,
                     Line("</details>", <<>>),
                     Blank >>
             ELSE << Line("### Extracted Text", <<>>), Blank,
                     Line("<details>", <<>>),
                     Line("<summary>Click to expand extracted text</summary>", <<>>),
                     Blank,
                     Fence,
                     Line("{}", <<SliceTo(content.text, 10000)>>) >>
                  \o (IF Len(content.text) > 10000
                      THEN <<Line("... [truncated]", <<>>)>> ELSE <<>>)
                  \o << Fence,
                        Blank,
                        Line("</details>", <<>>),
                        Blank >>)

\* the appendix whenever the content has text, whatever the flag
generate_report_appendix_by_text(content, analyses, summary, key_topics, enable_frame_analysis, include_appendix, now) ==
    generate_header(content, enable_frame_analysis, now)
        \o generate_content_summary(content, summary, key_topics)
        \o Concat([i \in 1..Len(analyses) |-> generate_persona_section(analyses[i])])
        \o generate_checklist(analyses)
        \o (IF content.text # <<>> THEN generate_appendix(content, TRUE) ELSE <<>>)

\* generate_report(content, analyses, summary, key_topics,
\* enable_frame_analysis, include_appendix): "\n".join(sections), every
\* section a "\n".join of its lines; now is what datetime.now() returns
\* during the call
generate_report(content, analyses, summary, key_topics, enable_frame_analysis, include_appendix, now) ==
    generate_header(content, enable_frame_analysis, now)
        \o generate_content_summary(content, summary, key_topics)
        \o Concat([i \in 1..Len(analyses) |-> generate_persona_section(analyses[i])])
        \o generate_checklist(analyses)
        \o (IF include_appendix THEN generate_appendix(content, TRUE) ELSE <<>>)

\* a persona type that comes again later in the list analysed once only
RECURSIVE analyze_content_once_each(_, _)
analyze_content_once_each(content, persona_types) ==
    IF persona_types = <<>> THEN [raised |-> None, value |-> <<>>]
    ELSE LET result == analyze_for_persona(content, get_persona(Head(persona_types)))
             rest == analyze_content_once_each(content, Tail(persona_types))
         IN  IF \E i \in 2..Len(persona_types) : persona_types[i] = Head(persona_types)
             THEN rest
             ELSE IF result.raised # None THEN [raised |-> result.raised, value |-> <<>>]
             ELSE IF rest.raised # None THEN rest
             ELSE [raised |-> None, value |-> <<result.value>> \o rest.value]

\* analyze.py analyze_content: get_persona and analyze_for_persona for every
\* persona type of the list, in order; an exception of one leaves the call
RECURSIVE analyze_content(_, _)
analyze_content(content, persona_types) ==
    IF persona_types = <<>> THEN [raised |-> None, value |-> <<>>]
    ELSE LET result == analyze_for_persona(content, get_persona(Head(persona_types)))
             rest == analyze_content(content, Tail(persona_types))
         IN  IF result.raised # None THEN [raised |-> result.raised, value |-> <<>>]
             ELSE IF rest.raised # None THEN rest
             ELSE [raised |-> None, value |-> <<result.value>> \o rest.value]

\* ------------------------------------------------------------------------
\* library functions called on their own
\* ------------------------------------------------------------------------
\* the file of a call that reads no file
NoFile == [name |-> <<>>, kind |-> "missing", perm |-> "ok", size |-> 0]

\* ------------------------------------------------------------------------
\* SpecParse: one call of parse_personas on a comma-separated string
\* ------------------------------------------------------------------------
MaxTokens == 3

\* what a user writes between the commas
TokenTexts ==
    { <<"c","e","o">>,
      <<" ","C","F","O"," ">>,
      <<"c","f","o">>,
      <<"C","t","o">>,
      <<"b","o","g","u","s">>,
      <<>>,
      <<"v","p","-","p","r","o","d","u","c","t">>,
      <<"o","p","s"," ">>,
      <<"c"," ","e"," ","o">> }

TokenLists == UNION { [1..n -> TokenTexts] : n \in 1..MaxTokens }

\* ",".join(tokens)
RECURSIVE JoinComma(_)
JoinComma(toks) ==
    IF Len(toks) = 1 THEN toks[1]
    ELSE toks[1] \o <<",">> \o JoinComma(Tail(toks))

InitParse ==
    /\ fpc = "called"
    /\ fargs \in { [fn |-> "parse_personas", persona_str |-> JoinComma(t), tokens |-> t] :
                      t \in TokenLists }
    /\ frets = <<>>
    /\ file = NoFile
    /\ DetIdle
    /\ PipeIdle
    /\ ExIdle

\* parse_personas(persona_str): the personas, and the warnings it printed
CallParsePersonas ==
    /\ fpc = "called"
    /\ fargs.fn = "parse_personas"
    /\ frets' = <<parse_personas(fargs.persona_str)>>
    /\ fpc' = "returned"
    /\ UNCHANGED fargs
    /\ UNCHANGED <<detVars, pipeVars, exVars>>

NextParse == CallParsePersonas

SpecParse == InitParse /\ [][NextParse]_vars

\* ------------------------------------------------------------------------
\* SpecAnalyze: analyze_for_persona and its generators called on a persona
\* ------------------------------------------------------------------------
MaxFocusAreas == 4
MaxKeyConcerns == 6

CatalogPersonas == { get_persona(PersonaType[i]) : i \in 1..Len(PersonaType) }

\* focus areas and key concerns of personas built outside the catalog
FocusAreaPool ==
    << <<"R","i","s","k">>,
       <<"U","n","i","t"," ","c","o","s","t">>,
       <<"S","p","e","e","d">>,
       <<"T","r","u","s","t">>,
       <<"R","e","a","c","h">>,
       <<"S","c","a","l","e">> >>

KeyConcernPool ==
    << "Who pays?", "Who signs?", "When?", "Where?", "How long?", "What else?",
       "Why now?", "Why us?" >>

\* ExecutivePersona(...) with any number of focus areas and key concerns
CustomPersonas ==
    { [type |-> t, title |-> "Advisor",
       focus_areas |-> SubSeq(FocusAreaPool, 1, nf),
       key_concerns |-> SubSeq(KeyConcernPool, 1, nk)] :
         t \in {CFO, CISO}, nf \in 0..MaxFocusAreas, nk \in 0..MaxKeyConcerns }

Personas == CatalogPersonas \cup CustomPersonas

\* ExtractionResult values: a text file without text, a deck, a recording
Contents ==
    { [content_type |-> DOCUMENT, text |-> "", slides |-> <<>>, segments |-> 0],
      [content_type |-> PRESENTATION, text |-> "Intro Approach Pricing",
       slides |-> <<"Intro", "Approach", "Pricing">>, segments |-> 0],
      [content_type |-> VIDEO, text |-> "transcript", slides |-> <<>>, segments |-> 2] }

AnalyzeCalls ==
    [ fn : {"analyze_for_persona"}, persona : Personas,
      contents : Contents \X Contents ]
    \cup
    [ fn : {"generate_persona_questions", "generate_persona_concerns",
            "generate_persona_recommendations"},
      persona : Personas,
      contents : { <<c>> : c \in Contents } ]

InitAnalyze ==
    /\ fpc = "called"
    /\ fargs \in AnalyzeCalls
    /\ frets = <<>>
    /\ file = NoFile
    /\ DetIdle
    /\ PipeIdle
    /\ ExIdle

CallGenerateQuestions ==
    /\ fpc = "called"
    /\ fargs.fn = "generate_persona_questions"
    /\ frets' = <<generate_persona_questions(fargs.persona, fargs.contents[1])>>
    /\ fpc' = "returned"
    /\ UNCHANGED fargs
    /\ UNCHANGED <<detVars, pipeVars, exVars>>

CallGenerateConcerns ==
    /\ fpc = "called"
    /\ fargs.fn = "generate_persona_concerns"
    /\ frets' = <<generate_persona_concerns(fargs.persona, fargs.contents[1])>>
    /\ fpc' = "returned"
    /\ UNCHANGED fargs
    /\ UNCHANGED <<detVars, pipeVars, exVars>>

CallGenerateRecommendations ==
    /\ fpc = "called"
    /\ fargs.fn = "generate_persona_recommendations"
    /\ frets' = <<generate_persona_recommendations(fargs.persona)>>
    /\ fpc' = "returned"
    /\ UNCHANGED fargs
    /\ UNCHANGED <<detVars, pipeVars, exVars>>

\* analyze_for_persona(content, persona), once for each of the contents
CallAnalyzeForPersona ==
    /\ fpc = "called"
    /\ fargs.fn = "analyze_for_persona"
    /\ frets' = Append(frets,
                       analyze_for_persona(fargs.contents[Len(frets) + 1], fargs.persona))
    /\ fpc' = IF Len(frets') = Len(fargs.contents) THEN "returned" ELSE "called"
    /\ UNCHANGED fargs
    /\ UNCHANGED <<detVars, pipeVars, exVars>>

NextAnalyze ==
    \/ CallGenerateQuestions
    \/ CallGenerateConcerns
    \/ CallGenerateRecommendations
    \/ CallAnalyzeForPersona

SpecAnalyze == InitAnalyze /\ [][NextAnalyze]_vars

\* ------------------------------------------------------------------------
\* SpecConsolidate: the two consolidations called on a list of analyses
\* ------------------------------------------------------------------------
MaxAnalyses == 2

\* questions that share a text or a category
QScaleTechnical == [text |-> "How does this scale?", category |-> TECHNICAL]
QScaleOperational == [text |-> "How does this scale?", category |-> OPERATIONAL]
QHiddenCosts == [text |-> "What are the hidden costs?", category |-> FINANCIAL]

\* the questions of one analysis
QuestionLists ==
    { <<>>, <<QScaleTechnical>>, <<QScaleOperational>>, <<QHiddenCosts>>,
      <<QScaleTechnical, QHiddenCosts>>, <<QHiddenCosts, QScaleOperational>>,
      <<QHiddenCosts, QScaleOperational, QScaleTechnical>>,
      <<QScaleTechnical, QScaleTechnical>> }

\* concerns told apart by their titles
CHighScalability == [title |-> "Scalability Assessment", severity |-> HIGH]
CHighFinancial == [title |-> "Financial risk Assessment", severity |-> HIGH]
CMediumPrivacy == [title |-> "Data privacy Assessment", severity |-> MEDIUM]
CLowSupport == [title |-> "Support burden Assessment", severity |-> LOW]

\* the concerns of one analysis
ConcernLists ==
    { <<>>, <<CLowSupport>>, <<CHighFinancial>>,
      <<CLowSupport, CHighScalability>>, <<CMediumPrivacy, CHighFinancial>>,
      <<CHighFinancial, CHighScalability>>, <<CHighScalability, CMediumPrivacy, CLowSupport>>,
      <<CMediumPrivacy, CMediumPrivacy>> }

AnalysisLists(S) == UNION { [1..n -> S] : n \in 0..MaxAnalyses }

ConsolidateCalls ==
    { [fn |-> "get_consolidated_questions", analyses |-> a] :
        a \in AnalysisLists([questions : QuestionLists, concerns : {<<>>}]) }
    \cup
    { [fn |-> "get_consolidated_concerns", analyses |-> a] :
        a \in AnalysisLists([questions : {<<>>}, concerns : ConcernLists]) }

InitConsolidate ==
    /\ fpc = "called"
    /\ fargs \in ConsolidateCalls
    /\ frets = <<>>
    /\ file = NoFile
    /\ DetIdle
    /\ PipeIdle
    /\ ExIdle

CallConsolidatedQuestions ==
    /\ fpc = "called"
    /\ fargs.fn = "get_consolidated_questions"
    /\ frets' = <<get_consolidated_questions(fargs.analyses)>>
    /\ fpc' = "returned"
    /\ UNCHANGED fargs
    /\ UNCHANGED <<detVars, pipeVars, exVars>>

CallConsolidatedConcerns ==
    /\ fpc = "called"
    /\ fargs.fn = "get_consolidated_concerns"
    /\ frets' = <<get_consolidated_concerns(fargs.analyses)>>
    /\ fpc' = "returned"
    /\ UNCHANGED fargs
    /\ UNCHANGED <<detVars, pipeVars, exVars>>

NextConsolidate ==
    \/ CallConsolidatedQuestions
    \/ CallConsolidatedConcerns

SpecConsolidate == InitConsolidate /\ [][NextConsolidate]_vars

\* ------------------------------------------------------------------------
\* SpecTruncate: truncate_text(s, 10), then the result truncated again
\* ------------------------------------------------------------------------
MaxTextLen == 12

TextChars == {"a", "."}

Texts == UNION { [1..n -> TextChars] : n \in 0..MaxTextLen }

\* max_length of the second call: the same and larger ones
AgainLengths == {10, 11, 13, 1000}

TruncateCalls ==
    [ fn : {"truncate_text"}, text : Texts, max_length : {10}, again : AgainLengths ]

InitTruncate ==
    /\ fpc = "called"
    /\ fargs \in TruncateCalls
    /\ frets = <<>>
    /\ file = NoFile
    /\ DetIdle
    /\ PipeIdle
    /\ ExIdle

\* truncate_text(text, max_length)
CallTruncateText ==
    /\ fpc = "called"
    /\ fargs.fn = "truncate_text"
    /\ frets = <<>>
    /\ frets' = <<truncate_text(fargs.text, fargs.max_length, DefaultSuffix)>>
    /\ UNCHANGED <<fpc, fargs>>
    /\ UNCHANGED <<detVars, pipeVars, exVars>>

\* truncate_text(result, again)
CallTruncateAgain ==
    /\ fpc = "called"
    /\ fargs.fn = "truncate_text"
    /\ Len(frets) = 1
    /\ frets' = Append(frets, truncate_text(frets[1], fargs.again, DefaultSuffix))
    /\ fpc' = "returned"
    /\ UNCHANGED fargs
    /\ UNCHANGED <<detVars, pipeVars, exVars>>

NextTruncate ==
    \/ CallTruncateText
    \/ CallTruncateAgain

SpecTruncate == InitTruncate /\ [][NextTruncate]_vars

\* ------------------------------------------------------------------------
\* SpecTruncateTo: truncate_text(text, max_length, suffix) with any maximum
\* ------------------------------------------------------------------------
\* max_length: int, from 0 up
MaxLengths == {0, 1, 2, 3, 5, 8, 1000}

\* suffix: str, the default one, none, a single character and a long one
Suffixes == { DefaultSuffix, <<>>, <<"~">>, <<".", ".", ".", ".", ".">> }

TruncateToCalls ==
    [ fn : {"truncate_text_to"}, text : Texts, max_length : MaxLengths,
      suffix : Suffixes ]

InitTruncateTo ==
    /\ fpc = "called"
    /\ fargs \in TruncateToCalls
    /\ frets = <<>>
    /\ file = NoFile
    /\ DetIdle
    /\ PipeIdle
    /\ ExIdle

\* truncate_text(text, max_length, suffix)
CallTruncateTextTo ==
    /\ fpc = "called"
    /\ fargs.fn = "truncate_text_to"
    /\ frets' = <<truncate_text(fargs.text, fargs.max_length, fargs.suffix)>>
    /\ fpc' = "returned"
    /\ UNCHANGED fargs
    /\ UNCHANGED <<detVars, pipeVars, exVars>>

NextTruncateTo == CallTruncateTextTo

SpecTruncateTo == InitTruncateTo /\ [][NextTruncateTo]_vars

\* ------------------------------------------------------------------------
\* SpecFrames: one call of extract_frames, run to its end; the interpreter
\* keeps executing the loop it is in
\* ------------------------------------------------------------------------
InitFrames ==
    /\ InitExtract
    /\ xcall \in FrameCalls

NextFrames ==
    \/ XFramesOpen
    \/ XFramesLoop

SpecFrames == InitFrames /\ [][NextFrames]_vars /\ WF_vars(XFramesLoop)

\* ------------------------------------------------------------------------
\* SpecReadText: extract_markdown or extract_text_file called on a file
\* ------------------------------------------------------------------------
MaxRawLen == 4

\* the characters of a file: a letter, a blank, the two line-ending
\* characters, and a byte that does not decode
RawChars == {"a", " ", CR, LF, BadByte}

RawContents == UNION { [1..n -> RawChars] : n \in 0..MaxRawLen }

ReadTextCalls == [ fn : {"extract_markdown", "extract_text_file"}, raw : RawContents ]

InitReadText ==
    /\ fpc = "called"
    /\ fargs \in ReadTextCalls
    /\ frets = <<>>
    /\ file = NoFile
    /\ DetIdle
    /\ PipeIdle
    /\ ExIdle

CallExtractMarkdown ==
    /\ fpc = "called"
    /\ fargs.fn = "extract_markdown"
    /\ frets' = <<extract_markdown(fargs.raw)>>
    /\ fpc' = "returned"
    /\ UNCHANGED fargs
    /\ UNCHANGED <<detVars, pipeVars, exVars>>

CallExtractTextFile ==
    /\ fpc = "called"
    /\ fargs.fn = "extract_text_file"
    /\ frets' = <<extract_text_file(fargs.raw)>>
    /\ fpc' = "returned"
    /\ UNCHANGED fargs
    /\ UNCHANGED <<detVars, pipeVars, exVars>>

NextReadText ==
    \/ CallExtractMarkdown
    \/ CallExtractTextFile

SpecReadText == InitReadText /\ [][NextReadText]_vars

\* ------------------------------------------------------------------------
\* SpecPdf: one call of extract_pdf
\* ------------------------------------------------------------------------
MaxImages == 2

\* page.get_text() of the first and of the second page
PageTexts == << <<"a", " ", " ", "b", LF>>, <<"c">> >>

ImageLists == UNION { [1..n -> ImageOutcomes] : n \in 0..MaxImages }

\* documents of no, one and two pages
PdfPageLists ==
    {<<>>}
    \cup { <<[text |-> PageTexts[1], images |-> i]>> : i \in ImageLists }
    \cup { <<[text |-> PageTexts[1], images |-> i], [text |-> PageTexts[2], images |-> j]>> :
             i \in ImageLists, j \in ImageLists }

PdfDocs ==
    [ opens : {TRUE}, pages : PdfPageLists ] \cup { [opens |-> FALSE, pages |-> <<>>] }

PdfCalls ==
    { c \in [ fn : {"extract_pdf"}, doc : PdfDocs, output_dir : BOOLEAN, dir_ok : BOOLEAN ] :
        ~c.output_dir => c.dir_ok }

InitPdf ==
    /\ fpc = "called"
    /\ fargs \in PdfCalls
    /\ frets = <<>>
    /\ file = NoFile
    /\ DetIdle
    /\ PipeIdle
    /\ ExIdle

CallExtractPdf ==
    /\ fpc = "called"
    /\ fargs.fn = "extract_pdf"
    /\ frets' = <<extract_pdf(fargs.doc, fargs.output_dir, fargs.dir_ok)>>
    /\ fpc' = "returned"
    /\ UNCHANGED fargs
    /\ UNCHANGED <<detVars, pipeVars, exVars>>

NextPdf == CallExtractPdf

SpecPdf == InitPdf /\ [][NextPdf]_vars

\* ------------------------------------------------------------------------
\* SpecReport: generate_report called twice with the same arguments, at the
\* times the clock shows then; generate_checklist called on its own
\* ------------------------------------------------------------------------
MaxReportAnalyses == 2

SixSlides ==
    << [slide_number |-> 1, title |-> "Intro"], [slide_number |-> 2, title |-> "Approach"],
       [slide_number |-> 3, title |-> ""], [slide_number |-> 4, title |-> "Pricing"],
       [slide_number |-> 5, title |-> "Plan"], [slide_number |-> 6, title |-> "Close"] >>

\* ExtractionResult values: a recording with frames, a text file without
\* text, a deck of six slides
ReportContents ==
    { [metadata |-> [file_name |-> "talk.mp4", content_type |-> VIDEO,
                     file_size_bytes |-> 2048, duration_seconds |-> 90,
                     page_count |-> NoCount, slide_count |-> NoCount,
                     language |-> <<"e", "n">>],
       text |-> <<"h", "i">>, image_paths |-> <<"frame_0000", "frame_0001">>,
       slides |-> <<>>],
      [metadata |-> [file_name |-> "empty.txt", content_type |-> DOCUMENT,
                     file_size_bytes |-> 1, duration_seconds |-> NoDuration,
                     page_count |-> 0, slide_count |-> NoCount,
                     language |-> NoLanguage],
       text |-> <<>>, image_paths |-> <<>>, slides |-> <<>>],
      [metadata |-> [file_name |-> "deck.pptx", content_type |-> PRESENTATION,
                     file_size_bytes |-> 1048576, duration_seconds |-> NoDuration,
                     page_count |-> NoCount, slide_count |-> 6,
                     language |-> NoLanguage],
       text |-> <<"x">>, image_paths |-> <<>>, slides |-> SixSlides] }

Advisor ==
    [type |-> CISO, title |-> "Advisor", focus_areas |-> <<>>, key_concerns |-> <<>>]

\* AnalysisResult values: two made by analyze_for_persona, one with
\* recommendations of low and high priority only, one with nothing in it
ReportAnalyses ==
    { analyze_for_persona([text |-> ""], get_persona(CEO)).value,
      analyze_for_persona([text |-> ""], get_persona(CFO)).value,
      AnalysisResult(Advisor, <<>>, <<>>, <<>>, <<>>,
                     << [text |-> <<"Bring a demo.">>, priority |-> LOW],
                        [text |-> <<"Name the owner.">>, priority |-> HIGH],
                        [text |-> <<"Bring a demo.">>, priority |-> LOW] >>),
      AnalysisResult(Advisor, <<>>, <<>>, <<>>, <<>>, <<>>) }

ReportAnalysisLists == UNION { [1..n -> ReportAnalyses] : n \in 0..MaxReportAnalyses }

\* datetime.now(): day and second of the day
Clock == { [day |-> 1, second |-> 0], [day |-> 1, second |-> 59],
           [day |-> 1, second |-> 60] }

ReportCalls ==
    [ fn : {"generate_report"}, content : ReportContents, analyses : ReportAnalysisLists,
      extras : { [summary |-> <<>>, key_topics |-> <<>>],
                 [summary |-> <<"s", "u", "m">>, key_topics |-> <<"cost", "risk">>] },
      enable_frame_analysis : BOOLEAN, include_appendix : BOOLEAN ]
    \cup
    [ fn : {"generate_checklist"}, analyses : ReportAnalysisLists ]

InitReport ==
    /\ fpc = "called"
    /\ fargs \in ReportCalls
    /\ frets = <<>>
    /\ file = NoFile
    /\ DetIdle
    /\ PipeIdle
    /\ ExIdle

\* generate_report(content, analyses, ...), once and once more; the clock
\* shows any time at the first call and no earlier time at the second
CallGenerateReport ==
    /\ fpc = "called"
    /\ fargs.fn = "generate_report"
    /\ \E now \in Clock :
          /\ frets # <<>> =>
                (frets[1].at.day < now.day
                    \/ (frets[1].at.day = now.day /\ frets[1].at.second <= now.second))
          /\ frets' = Append(frets,
                             [at |-> now,
                              report |->
                                 generate_report(fargs.content, fargs.analyses,
                                                 fargs.extras.summary, fargs.extras.key_topics,
                                                 fargs.enable_frame_analysis,
                                                 fargs.include_appendix, now)])
    /\ fpc' = IF Len(frets') = 2 THEN "returned" ELSE "called"
    /\ UNCHANGED fargs
    /\ UNCHANGED <<detVars, pipeVars, exVars>>

\* generate_checklist(analyses)
CallGenerateChecklist ==
    /\ fpc = "called"
    /\ fargs.fn = "generate_checklist"
    /\ frets' = <<generate_checklist(fargs.analyses)>>
    /\ fpc' = "returned"
    /\ UNCHANGED fargs
    /\ UNCHANGED <<detVars, pipeVars, exVars>>

NextReport ==
    \/ CallGenerateReport
    \/ CallGenerateChecklist

SpecReport == InitReport /\ [][NextReport]_vars

\* ------------------------------------------------------------------------
\* SpecChecklist: analyze_content on a list of persona types, then
\* generate_checklist on its analyses, as run_review chains them
\* ------------------------------------------------------------------------
MaxPersonas == 2

\* the lists main hands to run_review: never empty, repetitions allowed
PersonaLists ==
    UNION { [1..n -> { PersonaType[i] : i \in 1..Len(PersonaType) }] : n \in 1..MaxPersonas }

InitChecklist ==
    /\ fpc = "called"
    /\ fargs \in [ fn : {"analyze_content"}, content : ReportContents,
                   personas : PersonaLists ]
    /\ frets = <<>>
    /\ file = NoFile
    /\ DetIdle
    /\ PipeIdle
    /\ ExIdle

\* analyses = analyze_content(content, personas)
CallAnalyzeContent ==
    /\ fpc = "called"
    /\ fargs.fn = "analyze_content"
    /\ frets = <<>>
    /\ frets' = <<analyze_content(fargs.content, fargs.personas)>>
    /\ fpc' = IF frets'[1].raised # None THEN "returned" ELSE "called"
    /\ UNCHANGED fargs
    /\ UNCHANGED <<detVars, pipeVars, exVars>>

\* generate_checklist(analyses), within generate_report
CallChecklistOfAnalyses ==
    /\ fpc = "called"
    /\ fargs.fn = "analyze_content"
    /\ Len(frets) = 1
    /\ frets' = Append(frets, [raised |-> None, value |-> generate_checklist(frets[1].value)])
    /\ fpc' = "returned"
    /\ UNCHANGED fargs
    /\ UNCHANGED <<detVars, pipeVars, exVars>>

NextChecklist ==
    \/ CallAnalyzeContent
    \/ CallChecklistOfAnalyses

SpecChecklist == InitChecklist /\ [][NextChecklist]_vars

\* ------------------------------------------------------------------------
\* SpecHeader: extract_content as run_review calls it, on the content type
\* detected for the file, and generate_header on the result it returned
\* ------------------------------------------------------------------------
InitHeader ==
    /\ InitExtract
    /\ xcall.entry = "extract_content"
    /\ xcall.output_dir
    /\ xcall.content_type = detect_content_type(file.name)
    /\ xcall.content_type # None

\* what the extractors put in the metadata besides the duration: the page
\* count of a PDF, the slide count of a deck, the language of a transcript
MetadataExtras ==
    IF get_file_extension(file.name) = <<".","p","d","f">>
    THEN { [page_count |-> 3, slide_count |-> NoCount, language |-> NoLanguage] }
    ELSE IF xres.content_type = PRESENTATION
    THEN { [page_count |-> NoCount, slide_count |-> 6, language |-> NoLanguage] }
    ELSE IF xres.content_type \in {VIDEO, AUDIO}
    THEN { [page_count |-> NoCount, slide_count |-> NoCount, language |-> l] :
             l \in {NoLanguage, <<"e", "n">>} }
    ELSE { [page_count |-> NoCount, slide_count |-> NoCount, language |-> NoLanguage] }

\* the ExtractionResult of the call, as the report reads it
ExtractedContent(extras) ==
    [metadata |-> [file_name |-> file.name, content_type |-> xres.content_type,
                   file_size_bytes |-> file.size, duration_seconds |-> xres.duration,
                   page_count |-> extras.page_count, slide_count |-> extras.slide_count,
                   language |-> extras.language],
     text |-> xres.text, image_paths |-> xres.image_paths, slides |-> <<>>]

\* run_review step 5, the first section: generate_header(content, enable_frames)
XRenderHeader ==
    /\ xpc = "returned"
    /\ fpc = "idle"
    /\ \E extras \in MetadataExtras, now \in Clock :
          frets' = <<generate_header(ExtractedContent(extras), xcall.enable_frames, now)>>
    /\ fpc' = "returned"
    /\ UNCHANGED fargs
    /\ UNCHANGED <<detVars, pipeVars, exVars>>

NextHeader ==
    \/ XDispatch
    \/ XTranscribe
    \/ XProbeDuration
    \/ XFramesOpen
    \/ XFramesLoop
    \/ XDocument
    \/ XPresentation
    \/ XRenderHeader

SpecHeader == InitHeader /\ [][NextHeader]_vars

\* ------------------------------------------------------------------------
\* C1
\* ------------------------------------------------------------------------
IsPrefix(s, t) == Len(s) <= Len(t) /\ \A i \in 1..Len(s) : s[i] = t[i]

\* the stage order of run_review for n personas
StageOrder(n) ==
    <<StValidate, StDetect, StOutput, StExtract>>
        \o [i \in 1..n |-> StAnalyze] \o <<StRender, StPersist>>

StageNames == [i \in 1..Len(stages) |-> stages[i].stage]

Started(st) == \E i \in 1..Len(stages) : stages[i].stage = st

\* C1: run_review starts its stages in the order validate, detect, output
\* location, extract, analyze once per persona, render, persist; a stage
\* starts only when every stage before it has succeeded, nothing runs after a
\* failed stage, and extraction needs a valid file of a detected type.
C1_StageOrder ==
    /\ IsPrefix(StageNames, StageOrder(Len(personas)))
    /\ \A i \in 1..Len(stages) : i < Len(stages) => stages[i].ok
    /\ (\E i \in 1..Len(stages) : ~stages[i].ok) => pc = "exited"
    /\ Started(StExtract) => (vfResult.ok /\ dctResult \in ContentType)
    /\ Started(StRender) => analysed = Len(personas)

\* a review of several personas has reached the persist stage
C1_Witness ==
    /\ Started(StPersist)
    /\ Len(personas) >= 2
    /\ Len(stages) = 6 + Len(personas)

\* ------------------------------------------------------------------------
\* C2
\* ------------------------------------------------------------------------
\* C2: a run that is cancelled or fails leaves no report: when the run has
\* ended with a non-zero exit code no report file exists at the report path.
C2_NoReportAfterFailure ==
    (pc = "exited" /\ exitCode # ExitSuccess) => reportFile = "absent"

\* ------------------------------------------------------------------------
\* C3
\* ------------------------------------------------------------------------
\* C3 as stated: every run of main ends with exit code 0, 1 or 130 and no
\* escaped exception; 0 exactly when the report was saved; 1 for a missing or
\* invalid file, an undetected type or an exception in the review; 130 for an
\* interrupt.
C3_Original ==
    pc = "exited" =>
        /\ escaped = None
        /\ exitCode \in {ExitSuccess, ExitError, ExitInterrupt}
        /\ (exitCode = ExitSuccess) <=> (reportFile = "complete")
        /\ cause \in {"not_found", "invalid", "undetected", "exception"}
              => exitCode = ExitError
        /\ cause \in {"interrupt_review", "interrupt_main"} => exitCode = ExitInterrupt

\* C3 amended: a run of main ends with exit code 0, 1, 2 or 130, or with an
\* uncaught KeyboardInterrupt when it is interrupted before run_review is
\* entered. 0 exactly when run_review returned (the report is then saved) or
\* --check-deps found every dependency; 2 exactly when argparse rejects the
\* command line; 1 exactly for a missing or invalid file, an undetected
\* type, an exception inside run_review or a missing dependency; 130 exactly
\* for an interrupt inside run_review, from which nothing escapes main.
C3_ExitCodes ==
    pc = "exited" =>
        /\ (escaped = None) <=> (exitCode \in {ExitSuccess, ExitError, ExitUsage, ExitInterrupt})
        /\ (escaped # None) <=> (cause = "interrupt_main" /\ stages = <<>>)
        /\ (exitCode = ExitSuccess) <=> (cause \in {"returned", "deps_present"})
        /\ cause = "returned" => (reportFile = "complete" /\ Started(StPersist))
        /\ cause = "deps_present" => (args.check_deps /\ \A d \in Dependencies : deps[d])
        /\ (exitCode = ExitUsage) <=> (cause = "usage")
        /\ cause = "usage" => (args.personas.given /\ args.all_personas)
        /\ (exitCode = ExitError) <=>
              (cause \in {"not_found", "invalid", "undetected", "exception", "deps_missing"})
        /\ cause = "not_found" => file.kind = "missing"
        /\ cause = "invalid" => ~validate_file(file).ok
        /\ cause = "undetected" => detect_content_type(file.name) = None
        /\ cause = "exception" => Started(StOutput)
        /\ cause = "deps_missing" => (args.check_deps /\ \E d \in Dependencies : ~deps[d])
        /\ (exitCode = ExitInterrupt) <=> (cause = "interrupt_review")
        /\ (stages # <<>> /\ ~stages[Len(stages)].ok) => exitCode = ExitError

\* the run was interrupted inside run_review and ended with 130
C3_Witness ==
    /\ pc = "exited"
    /\ exitCode = ExitInterrupt
    /\ Started(StExtract)

\* ------------------------------------------------------------------------
\* C10
\* ------------------------------------------------------------------------
\* the personas have been selected
Selected == pc \in ReviewPcs

RecognisedPersonas == parse_personas(args.personas.str).personas

RecognisedUserType ==
    IF Truthy(args.user_type) THEN parse_user_type(args.user_type.str) ELSE None

\* C10 as stated: a --personas list with recognised personas is used whatever
\* the user type; otherwise a recognised --user-type gives its
\* USER_TYPE_PERSONA_DEFAULTS entry; otherwise the selection is [CEO, CTO].
C10_Original ==
    Selected =>
        /\ (Truthy(args.personas) /\ RecognisedPersonas # <<>>)
              => personas = RecognisedPersonas
        /\ (~Truthy(args.personas) /\ RecognisedUserType # None)
              => personas = USER_TYPE_PERSONA_DEFAULTS(RecognisedUserType)
        /\ (~Truthy(args.personas) /\ RecognisedUserType = None)
              => personas = <<CEO, CTO>>

\* C10 amended: --all-personas selects all six personas; otherwise a
\* --personas list with at least one recognised persona is used whatever the
\* user type; otherwise, when no non-empty --personas list is given, a
\* recognised --user-type gives its USER_TYPE_PERSONA_DEFAULTS entry; in
\* every other case the selection is [CEO, CTO].
C10_Precedence ==
    Selected =>
        /\ args.all_personas => personas = PersonaType
        /\ (~args.all_personas /\ Truthy(args.personas) /\ RecognisedPersonas # <<>>)
              => personas = RecognisedPersonas
        /\ (~args.all_personas /\ ~Truthy(args.personas) /\ RecognisedUserType # None)
              => personas = USER_TYPE_PERSONA_DEFAULTS(RecognisedUserType)
        /\ ( /\ ~args.all_personas
             /\ ~(Truthy(args.personas) /\ RecognisedPersonas # <<>>)
             /\ ~(~Truthy(args.personas) /\ RecognisedUserType # None) )
              => personas = <<CEO, CTO>>

\* an explicit list won over a recognised user type
C10_Witness ==
    /\ Selected
    /\ Truthy(args.personas)
    /\ RecognisedUserType = SALES_ENGINEER
    /\ personas = <<CFO>>

\* ------------------------------------------------------------------------
\* C4
\* ------------------------------------------------------------------------
\* the five checks of validate_file, in the order of the claim
CheckPasses(i, f) ==
    CASE i = 1 -> f.kind # "missing"
      [] i = 2 -> f.kind = "file"
      [] i = 3 -> f.kind = "file" /\ f.perm = "ok"
      [] i = 4 -> get_file_extension(f.name) \in ALL_SUPPORTED_EXTENSIONS
      [] i = 5 -> f.kind = "file" /\ f.size > 0

CheckMessages(i) ==
    CASE i = 1 -> {MsgNotFound}
      [] i = 2 -> {MsgNotFile}
      [] i = 3 -> {MsgDenied, MsgCannotRead}
      [] i = 4 -> {MsgUnsupported}
      [] i = 5 -> {MsgEmpty}

FailingChecks(f) == {i \in 1..5 : ~CheckPasses(i, f)}

\* C4: validate_file reports the first failing check among existence,
\* regular file, readability, supported extension, non-zero size, and is ok
\* exactly when all five pass; a missing path gives "File not found" and an
\* empty readable regular file with a supported extension "File is empty".
C4_ValidateFirstFailing ==
    vfResult # NoResult =>
        /\ vfResult.ok <=> (FailingChecks(file) = {})
        /\ FailingChecks(file) # {} =>
              \E i \in FailingChecks(file) :
                  /\ \A j \in FailingChecks(file) : i <= j
                  /\ vfResult.msg \in CheckMessages(i)
        /\ file.kind = "missing" => vfResult = [ok |-> FALSE, msg |-> MsgNotFound]
        /\ ( /\ file.kind = "file" /\ file.perm = "ok" /\ file.size = 0
             /\ get_file_extension(file.name) \in ALL_SUPPORTED_EXTENSIONS )
              => vfResult = [ok |-> FALSE, msg |-> MsgEmpty]

\* validate_file has rejected an empty file whose extension is unsupported too:
\* two checks fail and the earlier one is reported
C4_Witness ==
    /\ vfResult # NoResult
    /\ file.kind = "file" /\ file.perm = "ok" /\ file.size = 0
    /\ get_file_extension(file.name) \notin ALL_SUPPORTED_EXTENSIONS
    /\ vfResult.msg = MsgUnsupported

\* ------------------------------------------------------------------------
\* C5
\* ------------------------------------------------------------------------
ExtensionsOf(t) ==
    CASE t = VIDEO -> SUPPORTED_VIDEO_EXTENSIONS
      [] t = AUDIO -> SUPPORTED_AUDIO_EXTENSIONS
      [] t = DOCUMENT -> SUPPORTED_DOCUMENT_EXTENSIONS
      [] t = PRESENTATION -> SUPPORTED_PRESENTATION_EXTENSIONS

\* C5: the four extension sets are pairwise disjoint, and detect_content_type
\* returns the one content type whose set holds the lower-cased extension of
\* the path, and None when no set holds it.
C5_DetectUniqueType ==
    /\ \A s, t \in ContentType : s # t => ExtensionsOf(s) \cap ExtensionsOf(t) = {}
    /\ dctResult # NotCalled =>
          /\ \A t \in ContentType :
                (dctResult = t) <=> (Lower(Suffix(file.name)) \in ExtensionsOf(t))
          /\ (dctResult = None) <=>
                (\A t \in ContentType : Lower(Suffix(file.name)) \notin ExtensionsOf(t))

\* detect_content_type has classified a path whose extension is upper case
C5_Witness ==
    /\ dctResult = PRESENTATION
    /\ Suffix(file.name) = <<".","P","P","T","X">>

\* ------------------------------------------------------------------------
\* C6
\* ------------------------------------------------------------------------
\* C6: whenever extract_content returns a result, the content_type of the
\* result's metadata is the content_type argument the call was dispatched on.
C6_ContentTypeMatchesBranch ==
    (xcall.entry = "extract_content" /\ xpc = "returned")
        => xres.content_type = xcall.content_type

\* ------------------------------------------------------------------------
\* C7
\* ------------------------------------------------------------------------
\* C7: in the video branch of extract_content, when the transcript has been
\* produced and the video then cannot be opened for frame extraction, the
\* call does not end in the exception: the transcript result is returned.
C7_TranscriptSurvivesFrameFailure ==
    (xcall.entry = "extract_content" /\ xres.text = "transcript" /\ xerr = ErrVideoOpen)
        => xpc # "raised"

\* ------------------------------------------------------------------------
\* C8
\* ------------------------------------------------------------------------
\* C8: when every run of the duration probe has failed (timeout, non-zero
\* exit, unparseable or incomplete output, binary not installed), no probe
\* exception leaves extract_transcript and the duration is absent.
C8_ProbeBestEffort ==
    (probes # <<>> /\ \A i \in 1..Len(probes) : probes[i] \in ProbeFailures)
        => (xerr # ErrFileNotFound /\ xres.duration = NoDuration)

\* ------------------------------------------------------------------------
\* C9
\* ------------------------------------------------------------------------
\* max(1, int(fps * interval_seconds)) of the call in progress
C9_Step ==
    LET p == TruncDiv(video.fps * xcall.frame_interval, FpsScale)
    IN  IF p > 1 THEN p ELSE 1

\* C9: extract_frames never holds more than max_frames frames; the k-th frame
\* (k = 0, 1, 2, ...) was read at position k * max(1, int(fps * interval_seconds))
\* and carries the index k, so the indices are 0..n-1 in order.
C9_FrameCap ==
    (xpc \in {"frames_loop", "returned"})
        => /\ Len(extracted_paths) <= xcall.max_frames
           /\ \A k \in 1..Len(extracted_paths) :
                 /\ extracted_paths[k].index = k - 1
                 /\ extracted_paths[k].pos = (k - 1) * C9_Step

\* a video with more readable frames than the default cap: the call returned
\* exactly MAX_FRAMES_TO_EXTRACT frames with the next position still readable
C9_Witness ==
    /\ xpc = "returned"
    /\ xcall.max_frames = MAX_FRAMES_TO_EXTRACT
    /\ Len(extracted_paths) = MAX_FRAMES_TO_EXTRACT
    /\ current_frame < video.readable

\* ------------------------------------------------------------------------
\* C11
\* ------------------------------------------------------------------------
\* C11: unknown tokens are not fatal: the persona list handed to run_review
\* is never empty; when every token of a --personas list is unrecognised
\* the selection is the user-type default if a recognised --user-type was
\* given and [CEO, CTO] otherwise; an unrecognised --user-type alone gives
\* [CEO, CTO].
C11_UnknownTokensFallThrough ==
    Selected =>
        /\ personas # <<>>
        /\ (~args.all_personas /\ Truthy(args.personas) /\ RecognisedPersonas = <<>>)
              => personas = IF RecognisedUserType # None
                            THEN USER_TYPE_PERSONA_DEFAULTS(RecognisedUserType)
                            ELSE DefaultPersonas
        /\ ( /\ ~args.all_personas /\ ~Truthy(args.personas)
             /\ Truthy(args.user_type) /\ RecognisedUserType = None )
              => personas = DefaultPersonas

\* ------------------------------------------------------------------------
\* C13
\* ------------------------------------------------------------------------
AllPresent == \A d \in Dependencies : deps[d]

\* C13: with --check-deps accepted by the parser, no validation, detection,
\* extraction, analysis or report step is ever performed, whatever the file
\* argument, and main exits 0 when every dependency of
\* validate_dependencies is present and 1 otherwise.
C13_CheckDepsShortCircuit ==
    args.check_deps =>
        /\ stages = <<>>
        /\ vfResult = NoResult
        /\ dctResult = NotCalled
        /\ analysed = 0
        /\ reportFile = "absent"
        /\ exitCode \notin {NoExit, ExitUsage}
              => /\ cause \in {"deps_present", "deps_missing"}
                 /\ exitCode = IF AllPresent THEN ExitSuccess ELSE ExitError

\* --check-deps on a missing file, one Python package not importable: exit 1
C13_Witness ==
    /\ args.check_deps
    /\ file.kind = "missing"
    /\ pc = "exited"
    /\ exitCode = ExitError
    /\ \A d \in Dependencies : deps[d] <=> d # "fitz"

\* ------------------------------------------------------------------------
\* C12
\* ------------------------------------------------------------------------
\* the persona a written token names once lower-cased and trimmed, if any
C12_Named(tok) ==
    CASE tok \in {<<" ","C","F","O"," ">>, <<"c","f","o">>} -> CFO
      [] tok = <<"c","e","o">> -> CEO
      [] tok = <<"C","t","o">> -> CTO
      [] tok = <<"v","p","-","p","r","o","d","u","c","t">> -> VP_PRODUCT
      [] tok = <<"o","p","s"," ">> -> VP_OPERATIONS
      [] OTHER -> None

C12_IsPersona(x) == x # None

\* C12: parse_personas returns exactly the personas named by the recognised
\* tokens, in input order, and warns exactly once per unrecognised token and
\* never for a recognised one; every call returns.
C12_ParsePersonas ==
    /\ fpc \in {"called", "returned"}
    /\ fpc = "returned" =>
          LET named == [i \in 1..Len(fargs.tokens) |-> C12_Named(fargs.tokens[i])]
              unknown == {i \in 1..Len(named) : named[i] = None}
          IN  /\ frets[1].personas = SelectSeq(named, C12_IsPersona)
              /\ Len(frets[1].warnings) = Cardinality(unknown)

\* 'bogus,cfo' gave [CFO] and one warning
C12_Witness ==
    /\ fpc = "returned"
    /\ fargs.persona_str = <<"b","o","g","u","s",",","c","f","o">>
    /\ frets[1].personas = <<CFO>>
    /\ Len(frets[1].warnings) = 1

\* ------------------------------------------------------------------------
\* C14
\* ------------------------------------------------------------------------
\* the category the claim fixes for each persona type
C14_Category(persona_type) ==
    CASE persona_type \in {CEO, VP_PRODUCT} -> STRATEGIC
      [] persona_type = CFO -> FINANCIAL
      [] persona_type = CTO -> TECHNICAL
      [] persona_type = CISO -> SECURITY
      [] persona_type = VP_OPERATIONS -> OPERATIONAL

C15_Severities == <<HIGH, MEDIUM, LOW>>

\* C15: for every persona the concerns are one per focus area of the first
\* three, in order, with severity HIGH, MEDIUM, LOW by position; a catalog
\* persona gets exactly 3 concerns and its Key Concerns table 3 rows.
C15_ConcernsByPosition ==
    /\ (fpc = "returned" /\ fargs.fn = "generate_persona_concerns") =>
          LET p == fargs.persona
              n == IF Len(p.focus_areas) < 3 THEN Len(p.focus_areas) ELSE 3
          IN  /\ frets[1].raised = None
              /\ Len(frets[1].value) = n
              /\ \A i \in 1..Len(frets[1].value) :
                    /\ frets[1].value[i].title = <<p.focus_areas[i], " Assessment">>
                    /\ frets[1].value[i].severity = C15_Severities[i]
              /\ p \in CatalogPersonas => Len(frets[1].value) = 3
    /\ (fpc = "returned" /\ fargs.fn = "analyze_for_persona"
            /\ fargs.persona \in CatalogPersonas) =>
          \A j \in 1..Len(frets) :
              /\ frets[j].raised = None
              /\ Len(KeyConcernsRows(frets[j].value)) = 3

\* a persona with four focus areas got three concerns
C15_Witness ==
    /\ fpc = "returned"
    /\ fargs.fn = "generate_persona_concerns"
    /\ Len(fargs.persona.focus_areas) = 4
    /\ Len(frets[1].value) = 3
    /\ frets[1].value[3].severity = LOW

\* ------------------------------------------------------------------------
\* C16
\* ------------------------------------------------------------------------
C16_Priorities == <<HIGH, MEDIUM, MEDIUM>>

\* C16: for every catalog persona there are exactly 3 recommendations; the
\* i-th is written from the i-th focus area and the priorities are HIGH,
\* MEDIUM, MEDIUM.
C16_ThreeRecommendations ==
    /\ ( /\ fpc = "returned" /\ fargs.fn = "generate_persona_recommendations"
         /\ fargs.persona \in CatalogPersonas ) =>
          /\ frets[1].raised = None
          /\ Len(frets[1].value) = 3
          /\ \A i \in 1..3 :
                /\ frets[1].value[i].text[2] = Lower(fargs.persona.focus_areas[i])
                /\ frets[1].value[i].priority = C16_Priorities[i]
    /\ (fpc = "returned" /\ fargs.fn = "analyze_for_persona"
            /\ fargs.persona \in CatalogPersonas) =>
          \A j \in 1..Len(frets) :
              /\ Len(frets[j].value.recommendations) = 3
              /\ \A i \in 1..3 :
                    frets[j].value.recommendations[i].priority = C16_Priorities[i]

\* the recommendations of the CFO have been generated
C16_Witness ==
    /\ fpc = "returned"
    /\ fargs.fn = "generate_persona_recommendations"
    /\ fargs.persona = get_persona(CFO)
    /\ Len(frets[1].value) = 3

\* ------------------------------------------------------------------------
\* C17
\* ------------------------------------------------------------------------
\* C17: the analysis does not read the content: for one persona, the calls
\* of analyze_for_persona on two extraction results end the same way, with
\* the same questions, concerns, followups, risks and recommendations.
C17_ContentBlind ==
    (fpc = "returned" /\ fargs.fn = "analyze_for_persona") => frets[1] = frets[2]

\* the CTO analysed on a document without text and on a recording
C17_Witness ==
    /\ fpc = "returned"
    /\ fargs.fn = "analyze_for_persona"
    /\ fargs.persona = get_persona(CTO)
    /\ fargs.contents[1].text = ""
    /\ fargs.contents[2].content_type = VIDEO
    /\ Len(frets[2].value.questions) = 5

\* ------------------------------------------------------------------------
\* C18
\* ------------------------------------------------------------------------
\* the questions of all analyses of the call, in the order they are met
C18_Input == AllQuestions(fargs.analyses)

\* where a text is met first
C18_First(text) ==
    CHOOSE i \in 1..Len(C18_Input) :
        /\ C18_Input[i].text = text
        /\ \A j \in 1..(i - 1) : C18_Input[j].text # text

\* C18: get_consolidated_questions returns no two entries with the same
\* text; every distinct text of the input is there exactly once, as the
\* question of its first occurrence; the entries keep the order of their
\* first occurrences.
C18_DedupeFirstSeen ==
    (fpc = "returned" /\ fargs.fn = "get_consolidated_questions") =>
        LET out == frets[1]
        IN  /\ \A i, j \in 1..Len(out) : out[i].text = out[j].text => i = j
            /\ {out[i].text : i \in 1..Len(out)}
                  = {C18_Input[i].text : i \in 1..Len(C18_Input)}
            /\ \A i \in 1..Len(out) : out[i] = C18_Input[C18_First(out[i].text)]
            /\ \A i, j \in 1..Len(out) :
                  i < j => C18_First(out[i].text) < C18_First(out[j].text)

\* a text met in two analyses under two categories was kept once
C18_Witness ==
    /\ fpc = "returned"
    /\ fargs.fn = "get_consolidated_questions"
    /\ Len(fargs.analyses) = 2
    /\ \E i \in 1..Len(fargs.analyses[1].questions),
           j \in 1..Len(fargs.analyses[2].questions) :
          /\ fargs.analyses[1].questions[i].text = fargs.analyses[2].questions[j].text
          /\ fargs.analyses[1].questions[i].category # fargs.analyses[2].questions[j].category
    /\ Len(frets[1]) = 2

\* ------------------------------------------------------------------------
\* C19
\* ------------------------------------------------------------------------
C19_Input == AllConcerns(fargs.analyses)

C19_Rank(severity) ==
    CASE severity = HIGH -> 1 [] severity = MEDIUM -> 2 [] severity = LOW -> 3

\* the items of one severity, in the order of the list
C19_Of(list, severity) ==
    LET Is(c) == c.severity = severity IN SelectSeq(list, Is)

\* C19: get_consolidated_concerns returns the concerns of all analyses
\* rearranged: HIGH before MEDIUM before LOW, and the concerns of one
\* severity in the order they had in the concatenation.
C19_StableBySeverity ==
    (fpc = "returned" /\ fargs.fn = "get_consolidated_concerns") =>
        LET out == frets[1]
        IN  /\ Len(out) = Len(C19_Input)
            /\ \A i, j \in 1..Len(out) :
                  i < j => C19_Rank(out[i].severity) <= C19_Rank(out[j].severity)
            /\ \A sev \in Severity : C19_Of(out, sev) = C19_Of(C19_Input, sev)

\* severities LOW, HIGH, MEDIUM, HIGH came out as HIGH, HIGH, MEDIUM, LOW with
\* the two HIGH concerns in their order
C19_Witness ==
    /\ fpc = "returned"
    /\ fargs.fn = "get_consolidated_concerns"
    /\ Len(C19_Input) = 4
    /\ [i \in 1..4 |-> C19_Input[i].severity] = <<LOW, HIGH, MEDIUM, HIGH>>
    /\ C19_Input[2] # C19_Input[4]
    /\ frets[1] = <<C19_Input[2], C19_Input[4], C19_Input[3], C19_Input[1]>>

\* ------------------------------------------------------------------------
\* C20
\* ------------------------------------------------------------------------
\* C20: truncate_text(s, 10) of a string longer than 10 characters has
\* exactly 10 characters, ends in '...' and starts with the first 7
\* characters of s; a string of at most 10 characters comes back unchanged;
\* truncating the result again at 10 or more returns it unchanged.
C20_TruncateText ==
    (fargs.fn = "truncate_text" /\ frets # <<>>) =>
        /\ Len(fargs.text) > 10 =>
              /\ Len(frets[1]) = 10
              /\ SubSeq(frets[1], 8, 10) = <<".", ".", ".">>
              /\ SubSeq(frets[1], 1, 7) = SubSeq(fargs.text, 1, 7)
        /\ Len(fargs.text) <= 10 => frets[1] = fargs.text
        /\ Len(frets) = 2 => frets[2] = frets[1]

\* a text of 12 characters was cut to 10 and cut again at 11
C20_Witness ==
    /\ fpc = "returned"
    /\ fargs.fn = "truncate_text"
    /\ Len(fargs.text) = 12
    /\ fargs.again = 11
    /\ Len(frets) = 2
    /\ frets[1] # fargs.text

\* ------------------------------------------------------------------------
\* C29: for every text, every max_length from 0 up and every suffix, the
\* string truncate_text returns is never longer than max_length.
\* ------------------------------------------------------------------------
C29_NeverLonger ==
    (fpc = "returned" /\ fargs.fn = "truncate_text_to")
        => Len(frets[1]) <= fargs.max_length

\* ------------------------------------------------------------------------
\* C27: every path validate_file accepts has a detectable content type: when
\* validate_file returned (True, ...) for a path, detect_content_type of that
\* path is not None, so the "Could not detect content type" exit is not taken
\* after a successful validation.
\* ------------------------------------------------------------------------
C27_ValidImpliesDetected ==
    (vfResult # NoResult /\ vfResult.ok /\ dctResult # NotCalled)
        => dctResult \in ContentType

C27_Witness ==
    /\ vfResult # NoResult
    /\ vfResult.ok
    /\ dctResult = DOCUMENT
    /\ Suffix(file.name) = <<".","T","x","T">>

\* ------------------------------------------------------------------------
\* C28: the frame-sampling loop of extract_frames terminates for every video,
\* every fps (0 included) and every interval_seconds (0 and negative values
\* included): the frame step is at least 1, so the read position strictly
\* increases with every pass, and the loop ends after at most max_frames
\* written frames or at the first failed read.
\* ------------------------------------------------------------------------
C28_LoopTerminates ==
    /\ [](xpc = "frames_loop" => frame_interval >= 1)
    /\ [][(xpc = "frames_loop" /\ xpc' = "frames_loop")
            => /\ current_frame' > current_frame
               /\ frame_count' = frame_count + 1
               /\ frame_count' <= xcall.max_frames]_vars
    /\ [](xpc = "returned"
            => /\ Len(extracted_paths) <= xcall.max_frames
               /\ \/ Len(extracted_paths) = xcall.max_frames
                  \/ ~(current_frame < video.readable))
    /\ ((xpc = "frames_loop") ~> (xpc = "returned"))

\* a video of unknown fps sampled at a negative interval: several frames
\* written one position apart, and the call returned at the failed read
C28_Witness ==
    /\ xpc = "returned"
    /\ xcall.entry = "extract_frames"
    /\ video.fps = 0
    /\ xcall.frame_interval = -1
    /\ Len(extracted_paths) = MaxReadable
    /\ current_frame = video.readable

\* ------------------------------------------------------------------------
\* C25: extracting a .txt or .md file returns a result whose text equals the
\* raw contents of the file, with no transformation (no whitespace
\* normalisation, no line-ending change, nothing added or removed), for every
\* content that is valid in the declared encoding.
\* ------------------------------------------------------------------------
C25_RawText ==
    ( /\ fpc = "returned"
      /\ fargs.fn \in {"extract_markdown", "extract_text_file"}
      /\ \A i \in 1..Len(fargs.raw) : fargs.raw[i] # BadByte )
        => /\ frets[1].raised = None
           /\ frets[1].value.text = fargs.raw

\* ------------------------------------------------------------------------
\* C26
\* ------------------------------------------------------------------------
\* the images of the document that fitz can load and save
C26_Saved ==
    { x \in [page : 1..Len(fargs.doc.pages), img : 1..MaxImages] :
        /\ x.img <= Len(fargs.doc.pages[x.page].images)
        /\ fargs.doc.pages[x.page].images[x.img] \in {ImgRgb, ImgCmyk} }

C26_Before(x, y) == x.page < y.page \/ (x.page = y.page /\ x.img < y.img)

\* the document with every image removed
C26_TextOnly ==
    [fargs.doc EXCEPT !.pages =
        [p \in 1..Len(fargs.doc.pages) |-> [fargs.doc.pages[p] EXCEPT !.images = <<>>]]]

\* C26: PDF image extraction is best-effort per image: an exception while one
\* embedded image is loaded, converted or saved is swallowed, that image is
\* left out of image_paths, every other image of every page is still
\* extracted, in order, the page texts are what they are without any image,
\* and extract_pdf returns a result.
C26_BestEffortImages ==
    ( /\ fpc = "returned"
      /\ fargs.fn = "extract_pdf"
      /\ fargs.doc.opens
      /\ fargs.output_dir
      /\ fargs.dir_ok )
        => LET paths == frets[1].value.image_paths
           IN  /\ frets[1].raised = None
               /\ { paths[k] : k \in 1..Len(paths) } = C26_Saved
               /\ \A k \in 1..Len(paths) - 1 : C26_Before(paths[k], paths[k + 1])
               /\ frets[1].value.text = extract_pdf(C26_TextOnly, FALSE, TRUE).value.text
               /\ frets[1].page_count = Len(fargs.doc.pages)

\* two pages: the first image of the first page fails to save and its second
\* is kept, the second page's image fails to load
C26_Witness ==
    /\ fpc = "returned"
    /\ fargs.fn = "extract_pdf"
    /\ fargs.output_dir
    /\ Len(fargs.doc.pages) = 2
    /\ fargs.doc.pages[1].images = <<ImgBadSave, ImgCmyk>>
    /\ fargs.doc.pages[2].images = <<ImgBadPixmap>>
    /\ frets[1].raised = None
    /\ frets[1].value.image_paths = <<[page |-> 1, img |-> 2]>>
    /\ frets[1].value.text =
          <<"-", "-", "-", " ", "P", "a", "g", "e", " ", "1", " ", "-", "-", "-", " ",
            "a", " ", "b", " ",
            "-", "-", "-", " ", "P", "a", "g", "e", " ", "2", " ", "-", "-", "-", " ",
            "c">>

\* ------------------------------------------------------------------------
\* C21
\* ------------------------------------------------------------------------
\* the first lines of the five kinds of section
C21_SectionHeadings ==
    { "# Executive Review: {}", "## Content Summary", "## Executive Analysis: {}",
      "## Overall Preparation Checklist", "## Appendix" }

C21_IsSectionHeading(line) == line.fmt \in C21_SectionHeadings

\* the section headings of a report, top to bottom
C21_Sections(report) == SelectSeq(report, C21_IsSectionHeading)

\* C21: generate_report emits its sections in the order header, content
\* summary, one persona section per analysis in the order of the analyses
\* list (exactly len(analyses) of them), consolidated checklist, and then the
\* appendix if and only if the appendix flag is set; every section ends with
\* a horizontal rule; no section is left out, repeated or moved.
C21_SectionOrder ==
    (fargs.fn = "generate_report" /\ frets # <<>>)
        => LET report == frets[1].report
               sections == C21_Sections(report)
               n == Len(fargs.analyses)
           IN  /\ Len(sections) = n + 3 + (IF fargs.include_appendix THEN 1 ELSE 0)
               /\ sections[1].fmt = "# Executive Review: {}"
               /\ report[1] = sections[1]
               /\ sections[2].fmt = "## Content Summary"
               /\ \A i \in 1..n :
                     /\ sections[2 + i].fmt = "## Executive Analysis: {}"
                     /\ sections[2 + i].values = <<fargs.analyses[i].persona.title>>
               /\ sections[n + 3].fmt = "## Overall Preparation Checklist"
               /\ fargs.include_appendix => sections[n + 4].fmt = "## Appendix"
               /\ \A k \in 3..Len(report) :
                     C21_IsSectionHeading(report[k])
                        => (report[k - 2] = Rule /\ report[k - 1] = Blank)

\* a report of two persona sections and no appendix
C21_Witness ==
    /\ fargs.fn = "generate_report"
    /\ frets # <<>>
    /\ ~fargs.include_appendix
    /\ Len(fargs.analyses) = 2
    /\ fargs.analyses[1].persona.title = "Advisor"
    /\ fargs.analyses[2].persona.title = "CFO"
    /\ fargs.content.text # <<>>
    /\ frets[1].report[Len(frets[1].report) - 1] = Rule

\* ------------------------------------------------------------------------
\* C22
\* ------------------------------------------------------------------------
C22_BucketHeadings == {"### Must Address", "### Should Prepare", "### Nice to Have"}

\* the checkbox items printed under one bucket heading, top to bottom
RECURSIVE C22_Under(_, _, _)
C22_Under(lines, current, heading) ==
    IF lines = <<>> THEN <<>>
    ELSE IF Head(lines).fmt \in C22_BucketHeadings
    THEN C22_Under(Tail(lines), Head(lines).fmt, heading)
    ELSE IF Head(lines).fmt = "- [ ] {} ({})" /\ current = heading
    THEN <<Head(lines).values>> \o C22_Under(Tail(lines), current, heading)
    ELSE C22_Under(Tail(lines), current, heading)

\* the bucket a priority belongs to
C22_BucketOf(priority) ==
    IF priority = HIGH THEN "### Must Address"
    ELSE IF priority = MEDIUM THEN "### Should Prepare"
    ELSE "### Nice to Have"

\* the recommendations of analyses a, a + 1, ... that belong under a heading,
\* from recommendation r of analysis a on, each with its persona title
RECURSIVE C22_Expected(_, _, _, _)
C22_Expected(analyses, a, r, heading) ==
    IF a > Len(analyses) THEN <<>>
    ELSE IF r > Len(analyses[a].recommendations)
    THEN C22_Expected(analyses, a + 1, 1, heading)
    ELSE (IF C22_BucketOf(analyses[a].recommendations[r].priority) = heading
          THEN << <<analyses[a].recommendations[r].text, analyses[a].persona.title>> >>
          ELSE <<>>)
         \o C22_Expected(analyses, a, r + 1, heading)

\* C22: in generate_checklist every recommendation of every analysis appears
\* exactly once, in the one bucket its priority gives (HIGH: Must Address,
\* MEDIUM: Should Prepare, anything else: Nice to Have), with the title of
\* the persona it came from; the items of a bucket are in analysis order,
\* then recommendation order; a bucket heading is printed if and only if
\* the bucket has an item.
C22_ChecklistBuckets ==
    (fpc = "returned" /\ fargs.fn = "generate_checklist")
        => LET lines == frets[1]
               IsItem(line) == line.fmt = "- [ ] {} ({})"
               IsBucket(line) == line.fmt \in C22_BucketHeadings
           IN  /\ \A h \in C22_BucketHeadings :
                     /\ C22_Under(lines, "", h) = C22_Expected(fargs.analyses, 1, 1, h)
                     /\ Cardinality({ i \in 1..Len(lines) : lines[i].fmt = h })
                           = IF C22_Expected(fargs.analyses, 1, 1, h) = <<>> THEN 0 ELSE 1
               /\ Len(SelectSeq(lines, IsItem))
                     = Len(ChecklistItems(fargs.analyses))
               /\ LET order == SelectSeq(lines, IsBucket)
                  IN  \A i, j \in 1..Len(order) :
                         i < j =>
                            \/ order[i].fmt = "### Must Address"
                            \/ order[j].fmt = "### Nice to Have"

\* two analyses, one with low and high priorities only: all three buckets
\* are printed, and Nice to Have holds the same recommendation twice
C22_Witness ==
    /\ fpc = "returned"
    /\ fargs.fn = "generate_checklist"
    /\ Len(fargs.analyses) = 2
    /\ C22_Under(frets[1], "", "### Nice to Have")
          = << <<<<"Bring a demo.">>, "Advisor">>, <<<<"Bring a demo.">>, "Advisor">> >>
    /\ Len(C22_Under(frets[1], "", "### Must Address")) = 2
    /\ Len(C22_Under(frets[1], "", "### Should Prepare")) = 2

\* ------------------------------------------------------------------------
\* C23
\* ------------------------------------------------------------------------
\* C23 as stated: two invocations of generate_report with the same
\* extraction result, analyses, summary, key topics, frame-analysis flag and
\* appendix flag return the same Markdown string, whatever the wall clock
\* shows at each call.
C23_PureOfArguments ==
    (fargs.fn = "generate_report" /\ Len(frets) = 2)
        => frets[1].report = frets[2].report

\* the minute a clock reading falls in
C23_Minute(now) == <<now.day, now.second \div 60>>

\* C23, amended: two invocations of generate_report with the same arguments
\* return Markdown strings of the same lines except for the "**Reviewed**"
\* line of the header, which shows the wall-clock time of the call to the
\* minute: the two strings are the same when the calls fall in the same
\* minute and differ in that one line when they do not.
C23_PureButForReviewed ==
    (fargs.fn = "generate_report" /\ Len(frets) = 2)
        => LET first == frets[1].report
               second == frets[2].report
           IN  /\ Len(first) = Len(second)
               /\ first[3].fmt = "**Reviewed**: {}"
               /\ second[3].fmt = "**Reviewed**: {}"
               /\ \A i \in 1..Len(first) : i # 3 => first[i] = second[i]
               /\ (first[3] = second[3])
                     <=> (C23_Minute(frets[1].at) = C23_Minute(frets[2].at))

\* the second call made in the minute after the first: the reports differ
C23_Witness ==
    /\ fargs.fn = "generate_report"
    /\ Len(frets) = 2
    /\ frets[1].at = [day |-> 1, second |-> 59]
    /\ frets[2].at = [day |-> 1, second |-> 60]
    /\ frets[1].report # frets[2].report

\* ------------------------------------------------------------------------
\* C30
\* ------------------------------------------------------------------------
\* how many of the items carry the title
C30_WithTitle(items, title) ==
    Cardinality({ i \in 1..Len(items) : items[i][2] = title })

\* how many times the persona type is in the list
C30_Times(persona_types, persona_type) ==
    Cardinality({ i \in 1..Len(persona_types) : persona_types[i] = persona_type })

\* C30: in every report of the pipeline (analyses made by analyze_content
\* for a non-empty persona list) the checklist has exactly one Must Address
\* item and exactly two Should Prepare items for every analysed persona, and
\* the Nice to Have bucket is empty, so its heading is never printed.
C30_PipelineChecklist ==
    (fargs.fn = "analyze_content" /\ frets # <<>>)
        => /\ frets[1].raised = None
           /\ Len(frets[1].value) = Len(fargs.personas)
           /\ Len(frets) = 2 =>
                LET lines == frets[2].value
                    must == C22_Under(lines, "", "### Must Address")
                    should == C22_Under(lines, "", "### Should Prepare")
                IN  /\ Len(must) = Len(fargs.personas)
                    /\ Len(should) = 2 * Len(fargs.personas)
                    /\ \A i \in 1..Len(PersonaType) :
                          LET title == get_persona(PersonaType[i]).title
                              times == C30_Times(fargs.personas, PersonaType[i])
                          IN  /\ C30_WithTitle(must, title) = times
                              /\ C30_WithTitle(should, title) = 2 * times
                    /\ C22_Under(lines, "", "### Nice to Have") = <<>>
                    /\ \A k \in 1..Len(lines) : lines[k].fmt # "### Nice to Have"

\* the same persona asked for twice: two Must Address and four Should
\* Prepare items, all with its title
C30_Witness ==
    /\ fargs.fn = "analyze_content"
    /\ fargs.personas = <<CFO, CFO>>
    /\ Len(frets) = 2
    /\ C30_WithTitle(C22_Under(frets[2].value, "", "### Must Address"), "CFO") = 2
    /\ C30_WithTitle(C22_Under(frets[2].value, "", "### Should Prepare"), "CFO") = 4

\* ------------------------------------------------------------------------
\* C24
\* ------------------------------------------------------------------------
\* every run of the duration probe made by the call ended in a timeout
C24_TimedOut ==
    /\ probes # <<>>
    /\ \A i \in 1..Len(probes) : probes[i] = ProbeTimeout

C24_DurationLines(header) ==
    { i \in 1..Len(header) : header[i].fmt = "**Duration**: {}" }

\* C24: when the duration probe of a video fails by timeout, the extraction
\* of the transcript still succeeds, with the duration absent, and the
\* report header has no Duration line at all, neither an error text nor a
\* zero; in general the header has a Duration line only when the metadata
\* carries a duration, and the line shows that duration.
C24_NoDurationLine ==
    /\ [][(xpc = "probe" /\ C24_TimedOut')
            => /\ Len(probes') = 2
               /\ xpc' = AfterTranscript
               /\ xerr' = None
               /\ xres'.text = "transcript"
               /\ xres'.duration = NoDuration]_vars
    /\ [](C24_TimedOut => xres.duration = NoDuration)
    /\ []((fpc = "returned" /\ C24_TimedOut) => C24_DurationLines(frets[1]) = {})
    /\ [](fpc = "returned" =>
            \A i \in C24_DurationLines(frets[1]) :
               /\ xres.duration # NoDuration
               /\ xres.duration # 0
               /\ frets[1][i].values = <<format_duration(xres.duration)>>)

\* a video whose two probe runs timed out: the header is there, with its
\* frame-analysis line and without a Duration line
C24_Witness ==
    /\ fpc = "returned"
    /\ xcall.content_type = VIDEO
    /\ probes = <<ProbeTimeout, ProbeTimeout>>
    /\ xres.text = "transcript"
    /\ \E i \in 1..Len(frets[1]) : frets[1][i].fmt = "**Frame Analysis**: {}"
    /\ C24_DurationLines(frets[1]) = {}

====
